---- MODULE Spec2Model ----
(***************************************************************************)
(* Model of the resume-matcher matching engine:                            *)
(*   src/src/text_similarity.py  TextSimilarityEngine, ResumeRanker        *)
(*   src/src/job_matcher.py      JobMatcher                                *)
(*   src/src/resume_parser.py    ResumeParser.parse_resume                 *)
(*   src/backend/app.py          the index route                           *)
(*                                                                         *)
(* A Python str is a sequence of one-character strings.  A Python float    *)
(* score is an integer number of 1/SCALE units (fixed point): a quotient   *)
(* of counts and the weighted sum are rounded down, the operations of the  *)
(* TF-IDF cosine round to nearest one by one, as float operations do.  A   *)
(* Python dict is a record; a key that may be absent is read with          *)
(* Get(d, k, default), as dict.get does.                                   *)
(*                                                                         *)
(* Spec        a caller collects up to MaxDocs resume records and calls    *)
(*             match_resumes_to_job                                        *)
(* BatchSpec   the same with up to MaxBatch parsed resumes                 *)
(* EngineSpec  a caller calls one method of TextSimilarityEngine directly  *)
(* PipelineSpec  a job file and a resume directory of up to MaxFiles files *)
(*             are on disk; a caller loads the job, parses the directory   *)
(*             and matches, or the index route runs the whole pipeline     *)
(***************************************************************************)
EXTENDS Integers, Sequences, FiniteSets, TLC

VARIABLES
    resumes,     \* the list of resume dicts the caller holds
    job_data,    \* the job dict the caller holds
    threshold,   \* the threshold the caller passes
    nltk_env,    \* how the NLTK import and tokenizer behave in this process
    pc,          \* "idle", then "returned" or "raised" after the call,
                 \* "returned_again" after a second call; with files,
                 \* "start", "loaded" after load_job_description, "idle"
                 \* after parse_resumes_from_directory, and "shown" or
                 \* "flashed" after the index route
    results,     \* the dict match_resumes_to_job returned
    error,       \* the message of the ValueError it raised
    scored,      \* documents handed to the scorer during the call
    args,        \* the arguments a direct caller of the engine passes
    called,      \* the engine method that caller has called, "" before
    ret,         \* what that method returned
    now,         \* the clock datetime.now() reads
    previous,    \* the dict the call before the last one returned
    files,       \* the resume directory and the job file on disk
    shown        \* the candidate list the backend index route renders

vars == <<resumes, job_data, threshold, nltk_env, pc, results, error, scored,
          args, called, ret, now, previous, files, shown>>

\* the variables of a direct engine call
engine_vars == <<args, called, ret>>

\* the variables of the file-based pipeline and the index route
pipeline_vars == <<files, shown>>

\* The longest input list of resumes the model explores.
MaxDocs == 3

\* Resolution of a score: 1.0 is SCALE units.
SCALE == 10000

(***************************************************************************)
(* Characters and strings                                                  *)
(***************************************************************************)
UpperChars == <<"A","B","C","D","E","F","G","H","I","J","K","L","M","N","O","P","Q","R","S","T","U","V","W","X","Y","Z">>

LowerChars == <<"a","b","c","d","e","f","g","h","i","j","k","l","m","n","o","p","q","r","s","t","u","v","w","x","y","z">>

DigitChars == <<"0","1","2","3","4","5","6","7","8","9">>

Range(s) == {s[i] : i \in 1..Len(s)}

UpperSet == Range(UpperChars)

LowerSet == Range(LowerChars)

DigitSet == Range(DigitChars)

\* str.lower() on one character
ToLower == [c \in UpperSet |-> LowerChars[CHOOSE i \in 1..Len(UpperChars) : UpperChars[i] = c]]

LowerChar(c) == IF c \in UpperSet THEN ToLower[c] ELSE c

\* str.lower()
Lower(text) == [i \in 1..Len(text) |-> LowerChar(text[i])]

\* Python's str.isspace for the characters of the model
IsSpace(c) == c \in {" ", "\t", "\n"}

\* The character class of the pattern r'[^a-zA-Z0-9\\s]': in a raw string
\* the class body reads a-z, A-Z, 0-9, an escaped backslash, and the letter
\* s.  Whitespace is not in it, so re.sub turns every whitespace character
\* into a space too, and a backslash is kept.
KeptByPattern(c) ==
    \/ c \in LowerSet
    \/ c \in UpperSet
    \/ c \in DigitSet
    \/ c = "\\"
    \/ c = "s"

\* re.sub(r'[^a-zA-Z0-9\\s]', ' ', text)
ReSub(text) == [i \in 1..Len(text) |-> IF KeptByPattern(text[i]) THEN text[i] ELSE " "]

\* str.split(): the maximal runs of non-whitespace characters, in order
RECURSIVE SplitFrom(_, _, _)
SplitFrom(text, i, cur) ==
    IF i > Len(text)
    THEN IF cur = <<>> THEN <<>> ELSE <<cur>>
    ELSE IF IsSpace(text[i])
         THEN IF cur = <<>>
              THEN SplitFrom(text, i + 1, <<>>)
              ELSE <<cur>> \o SplitFrom(text, i + 1, <<>>)
         ELSE SplitFrom(text, i + 1, Append(cur, text[i]))

Split(text) == SplitFrom(text, 1, <<>>)

\* ' '.join(words)
RECURSIVE Join(_)
Join(words) ==
    IF words = <<>> THEN <<>>
    ELSE IF Len(words) = 1 THEN words[1]
    ELSE words[1] \o <<" ">> \o Join(Tail(words))

\* needle in haystack (substring test of Python's str)
Contains(haystack, needle) ==
    \E i \in 0..(Len(haystack) - Len(needle)) :
        \A j \in 1..Len(needle) : haystack[i + j] = needle[j]

\* str.upper() on one character
UpperChar(c) ==
    IF c \in LowerSet
    THEN UpperChars[CHOOSE i \in 1..Len(LowerChars) : LowerChars[i] = c]
    ELSE c

\* str.title(): a letter that follows no letter becomes upper case, a letter
\* that follows a letter becomes lower case
Title(text) ==
    [i \in 1..Len(text) |->
        IF i > 1 /\ text[i - 1] \in LowerSet \cup UpperSet THEN LowerChar(text[i]) ELSE UpperChar(text[i])]

\* str.replace('_', ' ')
ReplaceUnderscore(text) == [i \in 1..Len(text) |-> IF text[i] = "_" THEN " " ELSE text[i]]

\* str.upper()
Upper(text) == [i \in 1..Len(text) |-> UpperChar(text[i])]

\* str.strip()
RECURSIVE LStrip(_)
LStrip(text) ==
    IF text # <<>> /\ IsSpace(Head(text)) THEN LStrip(Tail(text)) ELSE text

RECURSIVE RStrip(_)
RStrip(text) ==
    IF text # <<>> /\ IsSpace(text[Len(text)])
    THEN RStrip(SubSeq(text, 1, Len(text) - 1))
    ELSE text

Strip(text) == RStrip(LStrip(text))

\* position of the dot that starts the extension of a file name, 0 if the
\* name has none (a leading dot starts no extension)
ExtensionDot(name) ==
    IF \E i \in 2..Len(name) : name[i] = "."
    THEN CHOOSE i \in 2..Len(name) : name[i] = "." /\ \A j \in (i + 1)..Len(name) : name[j] # "."
    ELSE 0

\* Path(name).suffix, os.path.splitext(name)[1]
Suffix(name) ==
    IF ExtensionDot(name) = 0 THEN <<>> ELSE SubSeq(name, ExtensionDot(name), Len(name))

\* Path(name).stem, os.path.splitext(name)[0]
Stem(name) ==
    IF ExtensionDot(name) = 0 THEN name ELSE SubSeq(name, 1, ExtensionDot(name) - 1)

(***************************************************************************)
(* Stop words (text_similarity.py 13-26)                                   *)
(***************************************************************************)
\* stopwords.words('english') of NLTK, the set used when NLTK imports
NltkStopWords == {
    <<"i">>, <<"m","e">>, <<"m","y">>,
    <<"m","y","s","e","l","f">>, <<"w","e">>, <<"o","u","r">>,
    <<"o","u","r","s">>, <<"o","u","r","s","e","l","v","e","s">>, <<"y","o","u">>,
    <<"y","o","u","'","r","e">>, <<"y","o","u","'","v","e">>, <<"y","o","u","'","l","l">>,
    <<"y","o","u","'","d">>, <<"y","o","u","r">>, <<"y","o","u","r","s">>,
    <<"y","o","u","r","s","e","l","f">>, <<"y","o","u","r","s","e","l","v","e","s">>, <<"h","e">>,
    <<"h","i","m">>, <<"h","i","s">>, <<"h","i","m","s","e","l","f">>,
    <<"s","h","e">>, <<"s","h","e","'","s">>, <<"h","e","r">>,
    <<"h","e","r","s">>, <<"h","e","r","s","e","l","f">>, <<"i","t">>,
    <<"i","t","'","s">>, <<"i","t","s">>, <<"i","t","s","e","l","f">>,
    <<"t","h","e","y">>, <<"t","h","e","m">>, <<"t","h","e","i","r">>,
    <<"t","h","e","i","r","s">>, <<"t","h","e","m","s","e","l","v","e","s">>, <<"w","h","a","t">>,
    <<"w","h","i","c","h">>, <<"w","h","o">>, <<"w","h","o","m">>,
    <<"t","h","i","s">>, <<"t","h","a","t">>, <<"t","h","a","t","'","l","l">>,
    <<"t","h","e","s","e">>, <<"t","h","o","s","e">>, <<"a","m">>,
    <<"i","s">>, <<"a","r","e">>, <<"w","a","s">>,
    <<"w","e","r","e">>, <<"b","e">>, <<"b","e","e","n">>,
    <<"b","e","i","n","g">>, <<"h","a","v","e">>, <<"h","a","s">>,
    <<"h","a","d">>, <<"h","a","v","i","n","g">>, <<"d","o">>,
    <<"d","o","e","s">>, <<"d","i","d">>, <<"d","o","i","n","g">>,
    <<"a">>, <<"a","n">>, <<"t","h","e">>,
    <<"a","n","d">>, <<"b","u","t">>, <<"i","f">>,
    <<"o","r">>, <<"b","e","c","a","u","s","e">>, <<"a","s">>,
    <<"u","n","t","i","l">>, <<"w","h","i","l","e">>, <<"o","f">>,
    <<"a","t">>, <<"b","y">>, <<"f","o","r">>,
    <<"w","i","t","h">>, <<"a","b","o","u","t">>, <<"a","g","a","i","n","s","t">>,
    <<"b","e","t","w","e","e","n">>, <<"i","n","t","o">>, <<"t","h","r","o","u","g","h">>,
    <<"d","u","r","i","n","g">>, <<"b","e","f","o","r","e">>, <<"a","f","t","e","r">>,
    <<"a","b","o","v","e">>, <<"b","e","l","o","w">>, <<"t","o">>,
    <<"f","r","o","m">>, <<"u","p">>, <<"d","o","w","n">>,
    <<"i","n">>, <<"o","u","t">>, <<"o","n">>,
    <<"o","f","f">>, <<"o","v","e","r">>, <<"u","n","d","e","r">>,
    <<"a","g","a","i","n">>, <<"f","u","r","t","h","e","r">>, <<"t","h","e","n">>,
    <<"o","n","c","e">>, <<"h","e","r","e">>, <<"t","h","e","r","e">>,
    <<"w","h","e","n">>, <<"w","h","e","r","e">>, <<"w","h","y">>,
    <<"h","o","w">>, <<"a","l","l">>, <<"a","n","y">>,
    <<"b","o","t","h">>, <<"e","a","c","h">>, <<"f","e","w">>,
    <<"m","o","r","e">>, <<"m","o","s","t">>, <<"o","t","h","e","r">>,
    <<"s","o","m","e">>, <<"s","u","c","h">>, <<"n","o">>,
    <<"n","o","r">>, <<"n","o","t">>, <<"o","n","l","y">>,
    <<"o","w","n">>, <<"s","a","m","e">>, <<"s","o">>,
    <<"t","h","a","n">>, <<"t","o","o">>, <<"v","e","r","y">>,
    <<"s">>, <<"t">>, <<"c","a","n">>,
    <<"w","i","l","l">>, <<"j","u","s","t">>, <<"d","o","n">>,
    <<"d","o","n","'","t">>, <<"s","h","o","u","l","d">>, <<"s","h","o","u","l","d","'","v","e">>,
    <<"n","o","w">>, <<"d">>, <<"l","l">>,
    <<"m">>, <<"o">>, <<"r","e">>,
    <<"v","e">>, <<"y">>, <<"a","i","n">>,
    <<"a","r","e","n">>, <<"a","r","e","n","'","t">>, <<"c","o","u","l","d","n">>,
    <<"c","o","u","l","d","n","'","t">>, <<"d","i","d","n">>, <<"d","i","d","n","'","t">>,
    <<"d","o","e","s","n">>, <<"d","o","e","s","n","'","t">>, <<"h","a","d","n">>,
    <<"h","a","d","n","'","t">>, <<"h","a","s","n">>, <<"h","a","s","n","'","t">>,
    <<"h","a","v","e","n">>, <<"h","a","v","e","n","'","t">>, <<"i","s","n">>,
    <<"i","s","n","'","t">>, <<"m","a">>, <<"m","i","g","h","t","n">>,
    <<"m","i","g","h","t","n","'","t">>, <<"m","u","s","t","n">>, <<"m","u","s","t","n","'","t">>,
    <<"n","e","e","d","n">>, <<"n","e","e","d","n","'","t">>, <<"s","h","a","n">>,
    <<"s","h","a","n","'","t">>, <<"s","h","o","u","l","d","n">>, <<"s","h","o","u","l","d","n","'","t">>,
    <<"w","a","s","n">>, <<"w","a","s","n","'","t">>, <<"w","e","r","e","n">>,
    <<"w","e","r","e","n","'","t">>, <<"w","o","n">>, <<"w","o","n","'","t">>,
    <<"w","o","u","l","d","n">>, <<"w","o","u","l","d","n","'","t">> }

\* the built-in list used when NLTK does not import
FallbackStopWords == {
    <<"t","h","e">>, <<"a">>, <<"a","n">>, <<"a","n","d">>, <<"o","r">>,
    <<"b","u","t">>, <<"i","n">>, <<"o","n">>, <<"a","t">>, <<"t","o">>,
    <<"f","o","r">>, <<"o","f">>, <<"w","i","t","h">>, <<"b","y">> }

(***************************************************************************)
(* Tokenizers of the libraries the engine calls                            *)
(***************************************************************************)
\* The import outcomes of text_similarity.py 13-26 and the tokenizer call of
\* line 41: "absent"   NLTK does not import (NLTK_AVAILABLE = False),
\*          "ok"       NLTK imports and word_tokenize works,
\*          "no_punkt" NLTK imports, word_tokenize raises (its tokenizer data
\*                     is not installed) and line 44 swallows the error.
NltkEnvs == {"absent", "ok", "no_punkt"}

\* The words NLTK's word_tokenize splits in two (its contraction rules);
\* every other rule of it needs punctuation, which re.sub has removed.
Contractions == {
    << <<"c","a","n","n","o","t">>, <<"c","a","n">>, <<"n","o","t">> >>,
    << <<"g","i","m","m","e">>, <<"g","i","m">>, <<"m","e">> >>,
    << <<"g","o","n","n","a">>, <<"g","o","n">>, <<"n","a">> >>,
    << <<"g","o","t","t","a">>, <<"g","o","t">>, <<"t","a">> >>,
    << <<"l","e","m","m","e">>, <<"l","e","m">>, <<"m","e">> >>,
    << <<"w","a","n","n","a">>, <<"w","a","n">>, <<"n","a">> >> }

RECURSIVE SplitContractions(_)
SplitContractions(words) ==
    IF words = <<>> THEN <<>>
    ELSE LET w == Head(words)
             rest == SplitContractions(Tail(words))
         IN  IF \E c \in Contractions : c[1] = w
             THEN LET c == CHOOSE c \in Contractions : c[1] = w
                  IN  <<c[2], c[3]>> \o rest
             ELSE <<w>> \o rest

\* nltk.tokenize.word_tokenize on a text of [a-z0-9\] words and spaces
WordTokenize(text) == SplitContractions(Split(text))

\* The analyzer of TfidfVectorizer (token_pattern (?u)\b\w\w+\b): runs of
\* word characters of length >= 2; a backslash is not a word character.
SkTokens(text) ==
    LET words == Split([i \in 1..Len(text) |-> IF text[i] = "\\" THEN " " ELSE text[i]])
    IN  SelectSeq(words, LAMBDA w : Len(w) >= 2)

\* ngram_range=(1, 2): every token, then every pair of consecutive tokens
Ngrams(tokens) ==
    [i \in 1..Len(tokens) |-> <<tokens[i]>>]
    \o [i \in 1..(Len(tokens) - 1) |-> <<tokens[i], tokens[i + 1]>>]

\* raw count of a term in a document (sublinear_tf is off)
TermCount(term, grams) == Cardinality({i \in 1..Len(grams) : grams[i] = term})

RECURSIVE SumOver(_, _)
SumOver(S, f) ==
    IF S = {} THEN 0
    ELSE LET x == CHOOSE x \in S : TRUE IN f[x] + SumOver(S \ {x}, f)

\* floor of the square root
RECURSIVE SqrtSearch(_, _, _)
SqrtSearch(n, lo, hi) ==
    IF lo >= hi THEN lo
    ELSE LET mid == (lo + hi + 1) \div 2
         IN  IF mid * mid <= n THEN SqrtSearch(n, mid, hi) ELSE SqrtSearch(n, lo, mid - 1)

ISqrt(n) == SqrtSearch(n, 0, 46340)

\* Floating-point arithmetic: every operation delivers its exact result
\* rounded to the nearest representable number.  Here the representable
\* numbers are the multiples of 1/SCALE; a sum of them is exact.
FMul(x, y) == (x * y + SCALE \div 2) \div SCALE

FDiv(x, y) == (x * SCALE + y \div 2) \div y

FSqrt(x) ==
    LET r == ISqrt(x * SCALE)
    IN  IF x * SCALE - r * r > r THEN r + 1 ELSE r

\* The smoothed idf of a 2-document corpus, idf = ln((1+2)/(1+df)) + 1:
\* 1 for a term of both documents (df = 2) ...
IdfShared == SCALE

\* ... and 1.4055 for a term of one document (df = 1)
IdfSingle == 14055

Idf(t, Ta, Tb) == IF t \in Ta /\ t \in Tb THEN IdfShared ELSE IdfSingle

\* a row of the matrix before normalisation: raw count times idf
TfidfRow(grams, Ta, Tb) ==
    [t \in Range(grams) |-> TermCount(t, grams) * Idf(t, Ta, Tb)]

\* sklearn.preprocessing.normalize(norm='l2') on one row: the square root of
\* the sum of squares, then every entry divided by it
L2Normalize(row) ==
    [t \in DOMAIN row |->
        FDiv(row[t], FSqrt(SumOver(DOMAIN row, [u \in DOMAIN row |-> FMul(row[u], row[u])])))]

\* the product of one row with the other, entry by entry
DotProduct(a, b) ==
    SumOver(DOMAIN a \cap DOMAIN b, [t \in DOMAIN a \cap DOMAIN b |-> FMul(a[t], b[t])])

\* cosine_similarity of the two rows of the TF-IDF matrix, in 1/SCALE:
\* TfidfVectorizer normalises each row (norm='l2'), cosine_similarity
\* normalises its arguments again and multiplies them.  Nothing clamps the
\* product.
CosineSimilarity(ga, gb) ==
    DotProduct(L2Normalize(L2Normalize(TfidfRow(ga, Range(ga), Range(gb)))),
               L2Normalize(L2Normalize(TfidfRow(gb, Range(ga), Range(gb)))))

(***************************************************************************)
(* Python dict and list helpers                                            *)
(***************************************************************************)
\* d.get(k, default)
Get(d, k, default) == IF k \in DOMAIN d THEN d[k] ELSE default

\* d.copy() followed by .update(u)
Update(d, u) == [k \in DOMAIN d \cup DOMAIN u |-> IF k \in DOMAIN u THEN u[k] ELSE d[k]]

\* a slice that does not truncate
TakeAll(seq, n) == seq

\* seq[:n]
Take(seq, n) == SubSeq(seq, 1, IF Len(seq) < n THEN Len(seq) ELSE n)

\* r.get('composite_score', 0)
CompositeOf(r) == Get(r, "composite_score", 0)

(***************************************************************************)
(* TextSimilarityEngine                                                    *)
(***************************************************************************)
\* self.stop_words
StopWords(env) == IF env = "absent" THEN FallbackStopWords ELSE NltkStopWords

\* word_tokenize(text) of line 41, or text.split() of line 46
Tokenize(cleaned, env) == IF env = "ok" THEN WordTokenize(cleaned) ELSE Split(cleaned)

\* Variant of FilterWords that keeps words of two characters
FilterWordsKeepingPairs(words, env) ==
    Join(SelectSeq(words, LAMBDA w : w \notin StopWords(env) /\ Len(w) >= 2))

\* The filter and join of lines 42-43 and of lines 47-48
FilterWords(words, env) ==
    Join(SelectSeq(words, LAMBDA w : w \notin StopWords(env) /\ Len(w) > 2))

\* Variant of preprocess_text that filters the whitespace-separated words
\* first and tokenizes what is left
PreprocessTextFilterFirst(text, env) ==
    IF text = <<>> THEN <<>>
    ELSE Join(Tokenize(FilterWords(Split(ReSub(Lower(text))), env), env))

\* preprocess_text
PreprocessText(text, env) ==
    IF text = <<>> THEN <<>>
    ELSE FilterWords(Tokenize(Join(Split(ReSub(Lower(text)))), env), env)

\* Variant of TfidfOfGrams whose vectorizer is fitted on the first document
\* only: terms of the second document outside that vocabulary are ignored.
TfidfFittedOnFirst(ga, gb) ==
    IF Range(ga) = {} THEN 0
    ELSE CosineSimilarity(ga, SelectSeq(gb, LAMBDA g : g \in Range(ga)))

\* Lines 56-59 on the n-grams of the two documents; fit_transform raises on
\* an empty vocabulary, which line 60 turns into 0.0
TfidfOfGrams(ga, gb) ==
    IF Range(ga) \cup Range(gb) = {} THEN 0 ELSE CosineSimilarity(ga, gb)

\* Lines 54-59 on the two preprocessed texts
TfidfOfProcessed(resume_processed, job_processed) ==
    IF resume_processed = <<>> \/ job_processed = <<>> THEN 0
    ELSE TfidfOfGrams(Ngrams(SkTokens(resume_processed)), Ngrams(SkTokens(job_processed)))

\* The exception the try block of lines 51-59 raises on the two preprocessed
\* texts, "" if none: fit_transform raises ValueError when no token of
\* either text has two word characters in a row (empty vocabulary).
TfidfTryRaises(resume_processed, job_processed) ==
    IF /\ resume_processed # <<>>
       /\ job_processed # <<>>
       /\ Range(Ngrams(SkTokens(resume_processed))) \cup Range(Ngrams(SkTokens(job_processed))) = {}
    THEN "ValueError"
    ELSE ""

\* Variant of ExceptException without a handler: the exception goes on to
\* the caller.
Reraise(exc) == exc

\* The handlers of lines 60-62, 73-75 and 84-86 (except Exception: log and
\* return 0.0): the exception that leaves the method, "" for none
ExceptException(exc) == ""

\* the exception that leaves calculate_tfidf_similarity, "" for none
TfidfSimilarityRaises(resume_text, job_description, env) ==
    ExceptException(TfidfTryRaises(PreprocessText(resume_text, env),
                                   PreprocessText(job_description, env)))

\* calculate_tfidf_similarity
CalculateTfidfSimilarity(resume_text, job_description, env) ==
    TfidfOfProcessed(PreprocessText(resume_text, env), PreprocessText(job_description, env))

\* Variant of JaccardOfWords that divides twice the common words by the sum
\* of the two set sizes (the Dice coefficient)
DiceOfWords(resume_words, job_words) ==
    IF resume_words = {} \/ job_words = {} THEN 0
    ELSE (2 * Cardinality(resume_words \cap job_words) * SCALE)
         \div (Cardinality(resume_words) + Cardinality(job_words))

\* Lines 68-72 on the two word sets
JaccardOfWords(resume_words, job_words) ==
    LET intersection == resume_words \cap job_words
        union == resume_words \cup job_words
    IN  IF resume_words = {} \/ job_words = {} THEN 0
        ELSE (Cardinality(intersection) * SCALE) \div Cardinality(union)

\* calculate_jaccard_similarity
CalculateJaccardSimilarity(resume_text, job_description, env) ==
    JaccardOfWords(Range(Split(PreprocessText(resume_text, env))),
                   Range(Split(PreprocessText(job_description, env))))

\* Variant of calculate_keyword_match_score that matches whole words: a
\* keyword counts when it equals a whitespace-separated word of the text.
KeywordMatchOnWords(resume_text, job_keywords) ==
    IF job_keywords = <<>> \/ resume_text = <<>> THEN 0
    ELSE LET resume_words == Range(Split(Lower(resume_text)))
             matched == Cardinality({i \in 1..Len(job_keywords) :
                                        Lower(job_keywords[i]) \in resume_words})
         IN  (matched * SCALE) \div Len(job_keywords)

\* calculate_keyword_match_score
CalculateKeywordMatchScore(resume_text, job_keywords) ==
    IF job_keywords = <<>> \/ resume_text = <<>> THEN 0
    ELSE LET resume_lower == Lower(resume_text)
             matched == Cardinality({i \in 1..Len(job_keywords) :
                                        Contains(resume_lower, Lower(job_keywords[i]))})
         IN  (matched * SCALE) \div Len(job_keywords)

\* weights = {'tfidf': 0.4, 'jaccard': 0.3, 'keyword': 0.3}, in tenths
DefaultWeights == [tfidf |-> 4, jaccard |-> 3, keyword |-> 3]

\* Variant of CompositeRecord that first rescales the weights to sum to 1
CompositeRecordRenormalised(weights, tfidf_score, jaccard_score, keyword_score) ==
    [composite_score |-> (Get(weights, "tfidf", 4) * tfidf_score
                          + Get(weights, "jaccard", 3) * jaccard_score
                          + Get(weights, "keyword", 3) * keyword_score)
                         \div (Get(weights, "tfidf", 4) + Get(weights, "jaccard", 3)
                               + Get(weights, "keyword", 3)),
     tfidf_score |-> tfidf_score,
     jaccard_score |-> jaccard_score,
     keyword_score |-> keyword_score]

\* Lines 99-109: the weighted sum, with weights.get(key, default) in tenths,
\* and the returned dict
CompositeRecord(weights, tfidf_score, jaccard_score, keyword_score) ==
    [composite_score |-> (Get(weights, "tfidf", 4) * tfidf_score
                          + Get(weights, "jaccard", 3) * jaccard_score
                          + Get(weights, "keyword", 3) * keyword_score) \div 10,
     tfidf_score |-> tfidf_score,
     jaccard_score |-> jaccard_score,
     keyword_score |-> keyword_score]

\* calculate_composite_score
CalculateCompositeScore(resume_text, job_description, job_keywords, weights, env) ==
    CompositeRecord(weights,
                    CalculateTfidfSimilarity(resume_text, job_description, env),
                    CalculateJaccardSimilarity(resume_text, job_description, env),
                    IF job_keywords # <<>>
                    THEN CalculateKeywordMatchScore(resume_text, job_keywords)
                    ELSE 0)

(***************************************************************************)
(* Inputs                                                                  *)
(***************************************************************************)
\* "Python, AWS."
TextPythonAws == <<"P","y","t","h","o","n",","," ","A","W","S",".">>

\* "has python sql"
TextHasPythonSql == <<"h","a","s"," ","p","y","t","h","o","n"," ","s","q","l">>

\* "java sql"
TextJavaSql == <<"j","a","v","a"," ","s","q","l">>

\* A raw_text that is no str: a numpy array of several elements, whose truth
\* value cannot be taken (bool() raises ValueError)
TextArray == <<"numpy.ndarray">>

\* "python aws sql"
DescPythonAwsSql == <<"p","y","t","h","o","n"," ","a","w","s"," ","s","q","l">>

\* ["Python", "AWS"]
KeywordsPythonAws == << <<"P","y","t","h","o","n">>, <<"A","W","S">> >>

\* Resume records as the parser produces them (resume_parser.py 93-110,
\* job_matcher.py 86-91) and as a caller of the public API may pass them;
\* 'filename' is added when the record joins the input list.
ResumeTemplates == {
    [parsing_success |-> TRUE, raw_text |-> TextPythonAws],
    [parsing_success |-> TRUE, raw_text |-> TextHasPythonSql],
    [parsing_success |-> TRUE, raw_text |-> TextJavaSql],
    [parsing_success |-> TRUE, raw_text |-> <<>>],
    [parsing_success |-> TRUE],
    [parsing_success |-> FALSE, raw_text |-> <<>>, error |-> "No text extracted"],
    [raw_text |-> TextPythonAws],
    [parsing_success |-> TRUE, raw_text |-> TextArray] }

\* job_data dicts: a job without keywords, a job with keywords, a job whose
\* description is empty, and a dict a caller passes without a description
Jobs == {
    [title |-> "Job", description |-> DescPythonAwsSql],
    [title |-> "Job", description |-> DescPythonAwsSql, keywords |-> KeywordsPythonAws],
    [title |-> "Job", description |-> <<>>, keywords |-> KeywordsPythonAws],
    [title |-> "Job"] }

\* thresholds in 1/SCALE: -0.1, 0.0, the default 0.3, and 1.5
Thresholds == {0 - (SCALE \div 10), 0, (3 * SCALE) \div 10, (15 * SCALE) \div 10}

\* "This is a test resume with python and django experience."
TextTestResume ==
    <<"T","h","i","s"," ","i","s"," ","a"," ","t","e","s","t"," ","r","e",
      "s","u","m","e"," ","w","i","t","h"," ","p","y","t","h","o","n"," ",
      "a","n","d"," ","d","j","a","n","g","o"," ","e","x","p","e","r","i",
      "e","n","c","e",".">>

\* "Looking for a Python developer with django experience."
TextTestJob ==
    <<"L","o","o","k","i","n","g"," ","f","o","r"," ","a"," ","P","y","t",
      "h","o","n"," ","d","e","v","e","l","o","p","e","r"," ","w","i","t",
      "h"," ","d","j","a","n","g","o"," ","e","x","p","e","r","i","e","n",
      "c","e",".">>

\* "python django"
TextPythonDjango ==
    <<"p","y","t","h","o","n"," ","d","j","a","n","g","o">>

\* "Python"
KeywordPython == <<"P","y","t","h","o","n">>

\* "python django a@b.io", "python a@b.io", "django c@d.io"
TextPythonDjangoAb == TextPythonDjango \o <<" ","a","@","b",".","i","o">>

TextPythonAb == <<"p","y","t","h","o","n"," ","a","@","b",".","i","o">>

TextDjangoCd == <<"d","j","a","n","g","o"," ","c","@","d",".","i","o">>

\* Texts read from the files of the model, and the descriptions and keywords
\* of its job files
FileTexts == {TextTestResume, TextPythonDjangoAb, TextPythonAb, TextDjangoCd}

FileScoreArgs ==
    {<<text, job[1], job[2], env>> :
        text \in FileTexts,
        job \in {<<TextTestJob, <<>>>>, <<TextPythonDjango, <<>>>>,
                 <<TextPythonDjango, <<KeywordPython>>>>},
        env \in NltkEnvs}

\* calculate_composite_score is a pure function of its arguments: its
\* values on the texts, jobs and environments of the model, computed once.
ModelTexts == {Get(r, "raw_text", <<>>) : r \in ResumeTemplates} \ {TextArray}

ScoreArgs ==
    {<<text, Get(job, "description", <<>>), Get(job, "keywords", <<>>), env>> :
        text \in ModelTexts, job \in Jobs, env \in NltkEnvs}
    \cup FileScoreArgs

CompositeScoreTable ==
    [a \in ScoreArgs |-> CalculateCompositeScore(a[1], a[2], a[3], DefaultWeights, a[4])]

\* self.similarity_engine.calculate_composite_score(resume_text, job_description, job_keywords)
CompositeScore(resume_text, job_description, job_keywords, env) ==
    IF <<resume_text, job_description, job_keywords, env>> \in ScoreArgs
    THEN CompositeScoreTable[<<resume_text, job_description, job_keywords, env>>]
    ELSE CalculateCompositeScore(resume_text, job_description, job_keywords, DefaultWeights, env)

(***************************************************************************)
(* ResumeRanker.rank_resumes                                               *)
(***************************************************************************)
\* Whether the try block of lines 122-132 raises.  Every method that
\* calculate_composite_score calls catches its own exceptions and returns 0.0,
\* so line 129 does not raise on a text; 'not resume_text' of line 124 raises
\* when the truth value of raw_text cannot be taken.
ScoringRaises(resume) == Get(resume, "raw_text", <<>>) = TextArray

\* str(e) of that exception
ScoringError ==
    "The truth value of an array with more than one element is ambiguous. Use a.any() or a.all()"

\* Variant of ScoreResume whose except branch fills in a zero breakdown, as
\* the short-circuit for an empty text does.
ScoreResumeZeroBreakdownOnError(resume, job_description, job_keywords, env) ==
    LET resume_text == Get(resume, "raw_text", <<>>)
    IN  IF ScoringRaises(resume) \/ resume_text = <<>>
        THEN Update(resume, [composite_score |-> 0, tfidf_score |-> 0,
                             jaccard_score |-> 0, keyword_score |-> 0])
        ELSE Update(resume, CompositeScore(resume_text, job_description, job_keywords, env))

\* Variant of ScoreResume whose short-circuit for an empty text sets only
\* composite_score, as the except branch does.
ScoreResumeBareShortCircuit(resume, job_description, job_keywords, env) ==
    LET resume_text == Get(resume, "raw_text", <<>>)
    IN  IF resume_text = <<>>
        THEN Update(resume, [composite_score |-> 0])
        ELSE Update(resume, CompositeScore(resume_text, job_description, job_keywords, env))

\* One iteration of the loop of lines 121-137
ScoreResume(resume, job_description, job_keywords, env) ==
    LET resume_text == Get(resume, "raw_text", <<>>)
    IN  IF ScoringRaises(resume)
        THEN Update(resume, [composite_score |-> 0, scoring_error |-> ScoringError])
        ELSE IF resume_text = <<>>
        THEN Update(resume, [composite_score |-> 0, tfidf_score |-> 0,
                             jaccard_score |-> 0, keyword_score |-> 0])
        ELSE Update(resume, CompositeScore(resume_text, job_description, job_keywords, env))

\* Variant of InsertByScore that is not stable: an element goes in front of
\* the elements already placed whose key equals its own.
InsertByScoreUnstable(sorted, x) ==
    LET n == Cardinality({i \in 1..Len(sorted) : CompositeOf(sorted[i]) > CompositeOf(x)})
    IN  SubSeq(sorted, 1, n) \o <<x>> \o SubSeq(sorted, n + 1, Len(sorted))

\* Variant of InsertByScore whose order among equal keys depends on the
\* clock: stable at even times, reversed at odd times.
InsertByScoreClockTies(sorted, x) ==
    LET n == Cardinality({i \in 1..Len(sorted) :
                             \/ CompositeOf(sorted[i]) > CompositeOf(x)
                             \/ CompositeOf(sorted[i]) = CompositeOf(x) /\ now % 2 = 0})
    IN  SubSeq(sorted, 1, n) \o <<x>> \o SubSeq(sorted, n + 1, Len(sorted))

\* list.sort(key=composite_score, reverse=True): a stable sort, so an element
\* goes behind every element already placed whose key is >= its own.
InsertByScore(sorted, x) ==
    LET n == Cardinality({i \in 1..Len(sorted) : CompositeOf(sorted[i]) >= CompositeOf(x)})
    IN  SubSeq(sorted, 1, n) \o <<x>> \o SubSeq(sorted, n + 1, Len(sorted))

RECURSIVE SortFrom(_, _)
SortFrom(sorted, rest) ==
    IF rest = <<>> THEN sorted
    ELSE SortFrom(InsertByScore(sorted, Head(rest)), Tail(rest))

\* Variant of SortByScoreDesc that leaves the list in input order
KeepInputOrder(seq) == seq

SortByScoreDesc(seq) == SortFrom(<<>>, seq)

\* the largest composite score of a non-empty list of scored records
MaxOfScored(scoredSeq) ==
    CHOOSE m \in {CompositeOf(scoredSeq[i]) : i \in 1..Len(scoredSeq)} :
        \A i \in 1..Len(scoredSeq) : CompositeOf(scoredSeq[i]) <= m

\* Variant of rank_resumes whose composite scores are relative to the best
\* composite score of the batch
RankResumesRelativeToBest(resumes_in, job_description, job_keywords, env) ==
    LET scoredSeq == [i \in 1..Len(resumes_in) |->
                        ScoreResume(resumes_in[i], job_description, job_keywords, env)]
        best == IF resumes_in = <<>> THEN 0 ELSE MaxOfScored(scoredSeq)
    IN  SortByScoreDesc([i \in 1..Len(resumes_in) |->
            IF best > 0
            THEN Update(scoredSeq[i], [composite_score |-> FDiv(CompositeOf(scoredSeq[i]), best)])
            ELSE scoredSeq[i]])

\* Variant of rank_resumes that scores one document per distinct content:
\* a document whose record (file name aside) repeats an earlier one is
\* merged into it.
RankResumesMergingContent(resumes_in, job_description, job_keywords, env) ==
    LET content(r) == [k \in DOMAIN r \ {"filename"} |-> r[k]]
        firsts == {i \in 1..Len(resumes_in) :
                     \A j \in 1..(i - 1) : content(resumes_in[j]) # content(resumes_in[i])}
        kept == SelectSeq([i \in 1..Len(resumes_in) |-> <<i, resumes_in[i]>>],
                          LAMBDA p : p[1] \in firsts)
    IN  SortByScoreDesc([i \in 1..Len(kept) |->
                            ScoreResume(kept[i][2], job_description, job_keywords, env)])

\* rank_resumes
RankResumes(resumes_in, job_description, job_keywords, env) ==
    IF resumes_in = <<>> THEN <<>>
    ELSE SortByScoreDesc([i \in 1..Len(resumes_in) |->
                             ScoreResume(resumes_in[i], job_description, job_keywords, env)])

(***************************************************************************)
(* JobMatcher.match_resumes_to_job                                         *)
(***************************************************************************)
\* top_candidates holds at most this many entries (qualified_resumes[:10])
TopCandidates == 10

\* sorted(scores), ascending
RECURSIVE SortAscFrom(_, _)
SortAscFrom(sorted, rest) ==
    IF rest = <<>> THEN sorted
    ELSE LET x == Head(rest)
             n == Cardinality({i \in 1..Len(sorted) : sorted[i] <= x})
         IN  SortAscFrom(SubSeq(sorted, 1, n) \o <<x>> \o SubSeq(sorted, n + 1, Len(sorted)),
                         Tail(rest))

SortedAsc(scores) == SortAscFrom(<<>>, scores)

RECURSIVE SumSeq(_)
SumSeq(s) == IF s = <<>> THEN 0 ELSE Head(s) + SumSeq(Tail(s))

MaxOf(scores) == CHOOSE m \in Range(scores) : \A x \in Range(scores) : x <= m

MinOf(scores) == CHOOSE m \in Range(scores) : \A x \in Range(scores) : m <= x

\* Variant of MedianOf that takes the lower middle element on an even count
MedianLowerMiddle(scores) == SortedAsc(scores)[(Len(scores) + 1) \div 2]

\* sorted(scores)[len(scores) // 2], the index being 0-based
MedianOf(scores) == SortedAsc(scores)[(Len(scores) \div 2) + 1]

\* The statistics dict of lines 132-137
Statistics(scores) ==
    [max_score |-> MaxOf(scores),
     min_score |-> MinOf(scores),
     avg_score |-> SumSeq(scores) \div Len(scores),
     median_score |-> MedianOf(scores)]

\* Variant of ParsingSuccess whose default is True
ParsingSuccessDefaultTrue(r) == Get(r, "parsing_success", TRUE)

\* r.get('parsing_success', False)
ParsingSuccess(r) == Get(r, "parsing_success", FALSE)

\* Variant of QualifiedResumes that truncates at a position
QualifiedTruncated(ranked, thr) == Take(ranked, TopCandidates)

\* Variant of QualifiedResumes that compares with > instead of >=
QualifiedStrict(ranked, thr) == SelectSeq(ranked, LAMBDA r : CompositeOf(r) > thr)

\* [r for r in ranked_resumes if r.get('composite_score', 0) >= threshold]
QualifiedResumes(ranked, thr) == SelectSeq(ranked, LAMBDA r : CompositeOf(r) >= thr)

\* Variant of PositiveScores that keeps the zero scores
AllScores(ranked) == [i \in 1..Len(ranked) |-> CompositeOf(ranked[i])]

\* [r.get('composite_score', 0) for r in ranked_resumes if r.get('composite_score', 0) > 0]
PositiveScores(ranked) ==
    SelectSeq([i \in 1..Len(ranked) |-> CompositeOf(ranked[i])], LAMBDA x : x > 0)

\* Variant of ValidationError without the check of the description
ValidationErrorNoDescription(resumes_in, job) ==
    IF resumes_in = <<>> THEN "No resumes provided" ELSE ""

\* Variant of ValidationError that also rejects a batch with no parsed resume
ValidationErrorAllFailed(resumes_in, job) ==
    IF resumes_in = <<>> THEN "No resumes provided"
    ELSE IF Get(job, "description", <<>>) = <<>> THEN "Job description is empty"
    ELSE IF \A i \in 1..Len(resumes_in) : ~ParsingSuccess(resumes_in[i])
    THEN "No valid resumes"
    ELSE ""

\* The checks of lines 98-106: the message of the ValueError raised, "" if none
ValidationError(resumes_in, job) ==
    IF resumes_in = <<>> THEN "No resumes provided"
    ELSE IF Get(job, "description", <<>>) = <<>> THEN "Job description is empty"
    ELSE ""

\* The results dict of lines 116-127; its 'timestamp' entry is added where
\* the clock is read
ResultsDict(job, thr, resumes_in, valid_resumes, failed_resumes, ranked_resumes, qualified_resumes) ==
    [job_info |-> job,
     total_resumes |-> Len(resumes_in),
     valid_resumes |-> Len(valid_resumes),
     failed_resumes |-> Len(failed_resumes),
     qualified_resumes |-> Len(qualified_resumes),
     threshold |-> thr,
     ranked_resumes |-> ranked_resumes,
     top_candidates |-> Take(qualified_resumes, TopCandidates),
     failed_parsing |-> failed_resumes]

\* Lines 129-137: the statistics entry is added when a score is > 0
WithStatistics(res, ranked_resumes, scores) ==
    IF ranked_resumes # <<>> /\ scores # <<>>
    THEN Update(res, [statistics |-> Statistics(scores)])
    ELSE res

\* Lines 114-139, given the ranking
ReportOfRanking(resumes_in, job, thr, valid_resumes, failed_resumes, ranked_resumes) ==
    WithStatistics(ResultsDict(job, thr, resumes_in, valid_resumes, failed_resumes,
                               ranked_resumes, QualifiedResumes(ranked_resumes, thr)),
                   ranked_resumes, PositiveScores(ranked_resumes))

\* Line 113
RankValid(valid_resumes, job_description, job_keywords, env) ==
    IF valid_resumes # <<>>
    THEN RankResumes(valid_resumes, job_description, job_keywords, env)
    ELSE <<>>

\* Lines 113-139, given the two lists of lines 108-109
ReportOfParsed(resumes_in, job, thr, env, valid_resumes, failed_resumes) ==
    ReportOfRanking(resumes_in, job, thr, valid_resumes, failed_resumes,
                    RankValid(valid_resumes, Get(job, "description", <<>>),
                              Get(job, "keywords", <<>>), env))

\* Variant of ResumesAfterCall in which the scores are written into the
\* caller's records instead of copies
ResumesScoredInPlace(resumes_in, job, env) ==
    [i \in 1..Len(resumes_in) |->
        IF ParsingSuccess(resumes_in[i])
        THEN ScoreResume(resumes_in[i], Get(job, "description", <<>>),
                         Get(job, "keywords", <<>>), env)
        ELSE resumes_in[i]]

\* The caller's list after a call that returned: lines 108-109 build new
\* lists, rank_resumes writes the scores into resume.copy() (text_similarity
\* 126, 131, 135) and sorts its own list, so the list and its records are
\* as they were.
ResumesAfterCall(resumes_in, job, env) == resumes_in

\* The call match_resumes_to_job(resumes, job_data, threshold): what it
\* raises ("" when it returns), what it returns, and how many documents it
\* handed to the scorer before that.
MatchResumesToJobCall(resumes_in, job, thr, env) ==
    IF ValidationError(resumes_in, job) # ""
    THEN [error |-> ValidationError(resumes_in, job), scored |-> 0]
    ELSE [error |-> "",
          scored |-> Len(SelectSeq(resumes_in, ParsingSuccess)),
          results |-> ReportOfParsed(resumes_in, job, thr, env,
                                     SelectSeq(resumes_in, ParsingSuccess),
                                     SelectSeq(resumes_in, LAMBDA r : ~ParsingSuccess(r)))]

(***************************************************************************)
(* State                                                                   *)
(***************************************************************************)
\* value of results while nothing has been returned
NoResults == [none |-> TRUE]

\* value of args while nobody calls the engine directly
NoArgs == [none |-> TRUE]

\* value of files while the caller works on records, not on files
NoFiles == [none |-> TRUE]

Init ==
    /\ resumes = <<>>
    /\ job_data \in Jobs
    /\ threshold \in Thresholds
    /\ nltk_env \in NltkEnvs
    /\ pc = "idle"
    /\ results = NoResults
    /\ error = ""
    /\ scored = 0
    /\ args = NoArgs
    /\ called = ""
    /\ ret = NoResults
    /\ now = 0
    /\ previous = NoResults
    /\ files = NoFiles
    /\ shown = <<>>

\* The caller collects one more resume record (parse_resumes_from_directory
\* appends one record per file, job_matcher.py 79-91).
AddResume(tmpl) ==
    /\ pc = "idle"
    /\ Len(resumes) < MaxDocs
    /\ resumes' = Append(resumes, Update(tmpl, [filename |-> Len(resumes)]))
    /\ UNCHANGED <<job_data, threshold, nltk_env, pc, results, error, scored>>
    /\ UNCHANGED <<engine_vars, now, previous, pipeline_vars>>

\* matcher.match_resumes_to_job(resumes, job_data, threshold); line 123
\* stamps the report with the clock, and the caller's list and job dict are
\* what the call leaves of them.
MatchResumesToJob ==
    /\ pc = "idle"
    /\ LET out == MatchResumesToJobCall(resumes, job_data, threshold, nltk_env)
       IN  /\ error' = out.error
           /\ scored' = out.scored
           /\ pc' = IF out.error = "" THEN "returned" ELSE "raised"
           /\ results' = IF out.error = ""
                         THEN Update(out.results, [timestamp |-> now])
                         ELSE NoResults
           /\ resumes' = IF out.error = ""
                         THEN ResumesAfterCall(resumes, job_data, nltk_env)
                         ELSE resumes
    /\ now' = now + 1
    /\ previous' = results
    /\ UNCHANGED <<job_data, threshold, nltk_env, engine_vars, pipeline_vars>>

\* The same call once more, on what the first call left of its inputs
MatchResumesToJobAgain ==
    /\ pc = "returned"
    /\ LET out == MatchResumesToJobCall(resumes, job_data, threshold, nltk_env)
       IN  /\ error' = out.error
           /\ scored' = out.scored
           /\ pc' = IF out.error = "" THEN "returned_again" ELSE "raised"
           /\ results' = IF out.error = ""
                         THEN Update(out.results, [timestamp |-> now])
                         ELSE NoResults
           /\ resumes' = IF out.error = ""
                         THEN ResumesAfterCall(resumes, job_data, nltk_env)
                         ELSE resumes
    /\ now' = now + 1
    /\ previous' = results
    /\ UNCHANGED <<job_data, threshold, nltk_env, engine_vars, pipeline_vars>>

Next ==
    \/ \E tmpl \in ResumeTemplates : AddResume(tmpl)
    \/ MatchResumesToJob
    \/ MatchResumesToJobAgain

Spec == Init /\ [][Next]_vars

(***************************************************************************)
(* A long directory: more documents than the report's top-candidates view  *)
(* shows, drawn from two kinds of parsed resume.                           *)
(***************************************************************************)
\* the longest list of the long-directory specification
MaxBatch == 11

BatchTemplates == {
    [parsing_success |-> TRUE, raw_text |-> TextPythonAws],
    [parsing_success |-> TRUE, raw_text |-> TextJavaSql] }

\* the default threshold 0.3, and 0.0
BatchThresholds == {(3 * SCALE) \div 10, 0}

BatchInit ==
    /\ resumes = <<>>
    /\ job_data = [title |-> "Job", description |-> DescPythonAwsSql]
    /\ threshold \in BatchThresholds
    /\ nltk_env \in NltkEnvs
    /\ pc = "idle"
    /\ results = NoResults
    /\ error = ""
    /\ scored = 0
    /\ args = NoArgs
    /\ called = ""
    /\ ret = NoResults
    /\ now = 0
    /\ previous = NoResults
    /\ files = NoFiles
    /\ shown = <<>>

\* one more parsed file of the directory (job_matcher.py 79-91)
AddBatchResume(tmpl) ==
    /\ pc = "idle"
    /\ Len(resumes) < MaxBatch
    /\ resumes' = Append(resumes, Update(tmpl, [filename |-> Len(resumes)]))
    /\ UNCHANGED <<job_data, threshold, nltk_env, pc, results, error, scored>>
    /\ UNCHANGED <<engine_vars, now, previous, pipeline_vars>>

BatchNext ==
    \/ \E tmpl \in BatchTemplates : AddBatchResume(tmpl)
    \/ MatchResumesToJob

BatchSpec == BatchInit /\ [][BatchNext]_vars

(***************************************************************************)
(* JobMatcher on files: load_job_description, parse_resumes_from_directory *)
(***************************************************************************)
\* 'Unknown Position'
UnknownPosition ==
    <<"U","n","k","n","o","w","n"," ","P","o","s","i","t","i","o","n">>

\* The job file on disk.  A file that exists has a name and, if it is read
\* as text, a content; a .json file whose content json.load accepts has the
\* parsed value in 'json', one it rejects has no such field.  The names are
\* "job.txt", "job.json" and "senior_dev.TXT".
JobFiles ==
    LET JobTxt == <<"j","o","b",".","t","x","t">>
        JobJson == <<"j","o","b",".","j","s","o","n">>
        SeniorDevTxt == <<"s","e","n","i","o","r","_","d","e","v",".","T","X","T">>
    IN {
    [exists |-> FALSE, name |-> JobTxt],
    [exists |-> TRUE, name |-> JobTxt, content |-> TextTestJob \o <<"\n">>],
    [exists |-> TRUE, name |-> JobTxt, content |-> <<" ", "\n">>],
    [exists |-> TRUE, name |-> SeniorDevTxt, content |-> <<" ">> \o TextPythonDjango],
    [exists |-> TRUE, name |-> JobJson, json |-> [description |-> TextTestJob]],
    [exists |-> TRUE, name |-> JobJson,
     json |-> [title |-> KeywordPython, description |-> TextPythonDjango,
               keywords |-> <<KeywordPython>>]],
    [exists |-> TRUE, name |-> JobJson, json |-> [description |-> <<>>]],
    [exists |-> TRUE, name |-> JobJson, json |-> [title |-> KeywordPython]],
    [exists |-> TRUE, name |-> JobJson] }

\* job_data.setdefault(key, value)
SetDefault(d, k, value) == IF k \in DOMAIN d THEN d ELSE Update(d, [x \in {k} |-> value])

\* Lines 37-41: the .json branch
LoadJson(file) ==
    IF "json" \notin DOMAIN file
    THEN [error |-> "JSONDecodeError"]
    ELSE IF "description" \notin DOMAIN file.json
    THEN [error |-> "JSON must contain 'description' field"]
    ELSE [error |-> "", job_data |-> file.json]

\* Lines 43-51: the branch of every other suffix, given the stripped content
LoadText(file, content) ==
    IF content = <<>>
    THEN [error |-> "Job description file is empty"]
    ELSE [error |-> "",
          job_data |-> [title |-> Title(ReplaceUnderscore(Stem(file.name))),
                        description |-> content,
                        keywords |-> <<>>]]

\* Lines 53-55 on what a branch produced
WithDefaults(loaded) ==
    IF loaded.error # "" THEN loaded
    ELSE [error |-> "",
          job_data |-> SetDefault(SetDefault(loaded.job_data, "title", UnknownPosition),
                                  "keywords", <<>>)]

\* load_job_description(job_file_path): the exception it raises ("" when it
\* returns) and the dict it returns
LoadJobDescriptionCall(file) ==
    IF ~file.exists THEN [error |-> "Job file not found"]
    ELSE IF Lower(Suffix(file.name)) = <<".","j","s","o","n">>
    THEN WithDefaults(LoadJson(file))
    ELSE WithDefaults(LoadText(file, Strip(file.content)))

(***************************************************************************)
(* ResumeParser (resume_parser.py)                                         *)
(***************************************************************************)
\* Python's None, a value no str of the model equals
None == <<"None">>

\* self.default_skills
DefaultSkills == {
    <<"p","y","t","h","o","n">>,
    <<"j","a","v","a">>,
    <<"j","a","v","a","s","c","r","i","p","t">>,
    <<"r","e","a","c","t">>,
    <<"d","j","a","n","g","o">>,
    <<"f","l","a","s","k">>,
    <<"m","a","c","h","i","n","e"," ","l","e","a","r","n","i","n","g">>,
    <<"d","a","t","a"," ","s","c","i","e","n","c","e">>,
    <<"s","q","l">>,
    <<"a","w","s">>,
    <<"d","o","c","k","e","r">>,
    <<"g","i","t">>,
    <<"a","g","i","l","e">>,
    <<"s","c","r","u","m">>,
    <<"p","r","o","j","e","c","t"," ","m","a","n","a","g","e","m","e","n",
      "t">>,
    <<"l","e","a","d","e","r","s","h","i","p">> }

\* Whether the pattern of extract_email matches the whole of a word that
\* begins and ends with a letter or a digit: local part, "@", domain, a dot
\* at position q, and two or more letters after it
IsEmail(word) ==
    LET alnum == LowerSet \cup UpperSet \cup DigitSet
    IN  \E p \in 2..Len(word) : \E q \in (p + 2)..(Len(word) - 2) :
            /\ word[p] = "@"
            /\ word[q] = "."
            /\ \A i \in 1..(p - 1) : word[i] \in alnum \cup {".", "_", "%", "+", "-"}
            /\ \A i \in (p + 1)..(q - 1) : word[i] \in alnum \cup {".", "-"}
            /\ \A i \in (q + 1)..Len(word) : word[i] \in LowerSet \cup UpperSet \cup {"|"}

\* extract_email(text): emails[0] if emails else None.  The texts of the model
\* hold an address only as a whole whitespace-delimited word, where the first
\* match of re.findall is the first such word.
ExtractEmail(text) ==
    IF \E i \in 1..Len(Split(text)) : IsEmail(Split(text)[i])
    THEN Split(text)[CHOOSE i \in 1..Len(Split(text)) :
                        /\ IsEmail(Split(text)[i])
                        /\ \A j \in 1..(i - 1) : ~IsEmail(Split(text)[j])]
    ELSE None

\* extract_phone(text): every pattern needs a digit, and no text of the model
\* has three digits in a row, so no pattern matches
ExtractPhone(text) == None

\* extract_skills(text): list(set(found_skills)), an unordered collection
ExtractSkills(text) == {skill \in DefaultSkills : Contains(Lower(text), skill)}

\* str(file_path) of a file of the resume directory "resumes"
FilePath(name) == <<"r","e","s","u","m","e","s","/">> \o name

\* extract_text(file_path) for a file that exists: the stripped text the
\* PDF or DOCX reader yields ('text' of the file, "" when the reader fails),
\* or the ValueError of an unsupported suffix
ExtractTextRaises(file) ==
    IF Lower(Suffix(file.name)) \in {<<".","p","d","f">>, <<".","d","o","c","x">>, <<".","d","o","c">>}
    THEN ""
    ELSE "Unsupported file format"

ExtractText(file) == Strip(Get(file, "text", <<>>))

\* The record of lines 93-102
ParsedRecord(file, text) ==
    [file_path |-> FilePath(file.name),
     filename |-> file.name,
     raw_text |-> text,
     email |-> ExtractEmail(text),
     phone |-> ExtractPhone(text),
     skills |-> ExtractSkills(text),
     word_count |-> Len(Split(text)),
     parsing_success |-> TRUE]

\* The record of lines 103-110
FailedRecord(file, message) ==
    [file_path |-> FilePath(file.name),
     filename |-> file.name,
     raw_text |-> <<>>,
     parsing_success |-> FALSE,
     error |-> message]

\* parse_resume(file_path)
ParseResume(file) ==
    IF ExtractTextRaises(file) # "" THEN FailedRecord(file, ExtractTextRaises(file))
    ELSE IF ExtractText(file) = <<>> THEN FailedRecord(file, "No text extracted")
    ELSE ParsedRecord(file, ExtractText(file))

(***************************************************************************)
(* JobMatcher.parse_resumes_from_directory                                 *)
(***************************************************************************)
\* extensions
Extensions == << <<".","p","d","f">>, <<".","d","o","c","x">>, <<".","d","o","c">> >>

\* Whether a name matches the pattern '*' + ext: on a case-sensitive file
\* system its last characters are ext, on a case-insensitive one they are
\* ext in any case
GlobMatches(name, ext, case_sensitive) ==
    /\ Len(name) >= Len(ext)
    /\ IF case_sensitive
       THEN SubSeq(name, Len(name) - Len(ext) + 1, Len(name)) = ext
       ELSE Lower(SubSeq(name, Len(name) - Len(ext) + 1, Len(name))) = Lower(ext)

\* resume_path.glob('*' + ext), in directory order
Glob(entries, ext, case_sensitive) ==
    SelectSeq(entries, LAMBDA file : GlobMatches(file.name, ext, case_sensitive))

\* Lines 69-71: every extension is globbed in lower and in upper case
RECURSIVE ResumeFiles(_, _, _)
ResumeFiles(entries, exts, case_sensitive) ==
    IF exts = <<>> THEN <<>>
    ELSE Glob(entries, Head(exts), case_sensitive)
         \o Glob(entries, Upper(Head(exts)), case_sensitive)
         \o ResumeFiles(entries, Tail(exts), case_sensitive)

\* Lines 80-92 on the files found
ParseAll(resume_files) == [i \in 1..Len(resume_files) |-> ParseResume(resume_files[i])]

\* parse_resumes_from_directory(resume_dir): the exception it raises ("" when
\* it returns) and the list it returns
ParseResumesFromDirectoryCall(dir) ==
    IF ~dir.exists THEN [error |-> "Resume directory not found"]
    ELSE [error |-> "",
          resumes |-> ParseAll(ResumeFiles(dir.entries, Extensions, dir.case_sensitive))]

(***************************************************************************)
(* JobMatcher.run_matching_pipeline and the index route of backend/app.py  *)
(***************************************************************************)
\* Lines 229-236 on the outcomes of the two loading calls: an exception of
\* either, "No resume files found" of line 234, else the outcome of
\* match_resumes_to_job
PipelineParse(loaded, parsed, thr, env) ==
    IF loaded.error # "" THEN [error |-> loaded.error, scored |-> 0]
    ELSE IF parsed.error # "" THEN [error |-> parsed.error, scored |-> 0]
    ELSE IF parsed.resumes = <<>> THEN [error |-> "No resume files found", scored |-> 0]
    ELSE MatchResumesToJobCall(parsed.resumes, loaded.job_data, thr, env)

\* run_matching_pipeline(resume_dir, job_file, threshold, save_results=False);
\* the text of results['report'] is not modelled
RunMatchingPipelineCall(fs, thr, env) ==
    PipelineParse(LoadJobDescriptionCall(fs.job_file),
                  ParseResumesFromDirectoryCall(fs.resume_dir), thr, env)

\* ALLOWED_EXTENSIONS
AllowedExtensions ==
    {<<".","p","d","f">>, <<".","d","o","c","x">>, <<".","d","o","c">>, <<".","t","x","t">>}

\* allowed_file(filename)
AllowedFile(name) == Lower(Suffix(name)) \in AllowedExtensions

\* 'Unknown' and 'N/A'
Unknown == <<"U","n","k","n","o","w","n">>

NotAvailable == <<"N","/","A">>

\* Line 48
CandidateName(resume) == Title(ReplaceUnderscore(Stem(Get(resume, "filename", Unknown))))

\* Lines 49-52
CandidateKey(resume) == <<CandidateName(resume), Get(resume, "email", NotAvailable)>>

\* round(score * 100, 1) in tenths of a percent, for a score in 1/SCALE
RoundPercent(score) ==
    IF score % 10 = 5 THEN (IF (score \div 10) % 2 = 0 THEN score \div 10 ELSE score \div 10 + 1)
    ELSE (score + 5) \div 10

\* Lines 57-66; 'skills' is the collection that line 62 joins
FormattedResult(resume) ==
    [candidateName |-> CandidateName(resume),
     compositeScore |-> RoundPercent(Get(resume, "composite_score", 0)),
     email |-> Get(resume, "email", NotAvailable),
     phone |-> Get(resume, "phone", NotAvailable),
     skills |-> Get(resume, "skills", {}),
     wordCount |-> Get(resume, "word_count", 0),
     skillsCount |-> Cardinality(Get(resume, "skills", {})),
     filename |-> Get(resume, "filename", Unknown)]

\* Variant of FormatFrom that appends every entry
RECURSIVE FormatEveryEntry(_, _, _)
FormatEveryEntry(ranked, seen_candidates, formatted_results) ==
    IF ranked = <<>> THEN formatted_results
    ELSE FormatEveryEntry(Tail(ranked), seen_candidates,
                          Append(formatted_results, FormattedResult(Head(ranked))))

\* The loop of lines 47-66
RECURSIVE FormatFrom(_, _, _)
FormatFrom(ranked, seen_candidates, formatted_results) ==
    IF ranked = <<>> THEN formatted_results
    ELSE IF CandidateKey(Head(ranked)) \in seen_candidates
    THEN FormatFrom(Tail(ranked), seen_candidates, formatted_results)
    ELSE FormatFrom(Tail(ranked), seen_candidates \cup {CandidateKey(Head(ranked))},
                    Append(formatted_results, FormattedResult(Head(ranked))))

\* Lines 44-66 on the results of the pipeline
FormatResults(res) == FormatFrom(Get(res, "ranked_resumes", <<>>), {}, <<>>)

(***************************************************************************)
(* Files on disk                                                           *)
(***************************************************************************)
\* longest resume directory of the model
MaxFiles == 2

\* Files of a resume directory: the plain-text file and a PDF of the same
\* text, two files of one candidate, a file of a namesake with another
\* address, and an upper-case PDF no text can be read from
ResumeFileSet == {
    [name |-> <<"t","e","s","t","_","r","e","s","u","m","e",".","t","x","t">>, content |-> TextTestResume],
    [name |-> <<"t","e","s","t","_","r","e","s","u","m","e",".","p","d","f">>, text |-> TextTestResume \o <<"\n">>],
    [name |-> <<"a","_","b",".","p","d","f">>, text |-> TextPythonDjangoAb],
    [name |-> <<"A","_","b",".","d","o","c","x">>, text |-> TextPythonAb],
    [name |-> <<"a","_","b",".","d","o","c">>, text |-> TextDjangoCd],
    [name |-> <<"c",".","P","D","F">>, text |-> <<>>] }

\* Directory listings: files with distinct names, in the order the file
\* system lists them
Listings ==
    {entries \in UNION {[1..n -> ResumeFileSet] : n \in 0..MaxFiles} :
        \A i, j \in 1..Len(entries) : i # j => entries[i] # entries[j]}

ResumeDirs ==
    {[exists |-> FALSE]}
    \cup {[exists |-> TRUE, entries |-> entries, case_sensitive |-> cs] :
            entries \in Listings, cs \in BOOLEAN}

\* job_data before a job is loaded
NoJobData == [none |-> TRUE]

\* the default threshold of match_resumes_to_job, passed by the index route too
DefaultThreshold == (3 * SCALE) \div 10

PipelineInit ==
    /\ files \in [job_file : JobFiles, resume_dir : ResumeDirs]
    /\ resumes = <<>>
    /\ job_data = NoJobData
    /\ threshold = DefaultThreshold
    /\ nltk_env \in NltkEnvs
    /\ pc = "start"
    /\ results = NoResults
    /\ error = ""
    /\ scored = 0
    /\ args = NoArgs
    /\ called = ""
    /\ ret = NoResults
    /\ now = 0
    /\ previous = NoResults
    /\ shown = <<>>

\* job_data = matcher.load_job_description(job_file)
LoadJobDescription ==
    /\ pc = "start"
    /\ LET out == LoadJobDescriptionCall(files.job_file)
       IN  /\ error' = out.error
           /\ pc' = IF out.error = "" THEN "loaded" ELSE "raised"
           /\ job_data' = IF out.error = "" THEN out.job_data ELSE job_data
    /\ UNCHANGED <<resumes, threshold, nltk_env, results, scored, engine_vars,
                   now, previous, pipeline_vars>>

\* resumes = matcher.parse_resumes_from_directory(resume_dir)
ParseResumesFromDirectory ==
    /\ pc = "loaded"
    /\ LET out == ParseResumesFromDirectoryCall(files.resume_dir)
       IN  /\ error' = out.error
           /\ pc' = IF out.error = "" THEN "idle" ELSE "raised"
           /\ resumes' = IF out.error = "" THEN out.resumes ELSE resumes
    /\ UNCHANGED <<job_data, threshold, nltk_env, results, scored, engine_vars,
                   now, previous, pipeline_vars>>

\* The index route on a POST with 'match': lines 32-37 find the job file,
\* lines 39-76 run the pipeline and format its results, lines 77-79 flash
\* the exception
Index ==
    /\ pc = "start"
    /\ IF ~files.job_file.exists \/ ~AllowedFile(files.job_file.name)
       THEN /\ error' = "No job description uploaded."
            /\ pc' = "flashed"
            /\ UNCHANGED <<results, shown, scored, now>>
       ELSE LET out == RunMatchingPipelineCall(files, DefaultThreshold, nltk_env)
            IN  /\ error' = out.error
                /\ scored' = out.scored
                /\ pc' = IF out.error = "" THEN "shown" ELSE "flashed"
                /\ results' = IF out.error = "" THEN Update(out.results, [timestamp |-> now]) ELSE results
                /\ shown' = IF out.error = "" THEN FormatResults(out.results) ELSE shown
                /\ now' = IF out.error = "" THEN now + 1 ELSE now
    /\ UNCHANGED <<resumes, job_data, threshold, nltk_env, engine_vars, previous, files>>

PipelineNext ==
    \/ LoadJobDescription
    \/ ParseResumesFromDirectory
    \/ MatchResumesToJob
    \/ Index

PipelineSpec == PipelineInit /\ [][PipelineNext]_vars

(***************************************************************************)
(* Direct calls of TextSimilarityEngine                                    *)
(***************************************************************************)
\* "python aws"
TextLowerPythonAws == <<"p","y","t","h","o","n"," ","a","w","s">>

\* "C:\sql JavaScript"
TextBackslash ==
    <<"C",":","\\","s","q","l"," ","J","a","v","a","S","c","r","i","p","t">>

\* "gonna cannot win"
TextContractions ==
    <<"g","o","n","n","a"," ","c","a","n","n","o","t"," ","w","i","n">>

\* "to be"
TextOnlyStopWords == <<"t","o"," ","b","e">>

\* "a\b": one word for split(), no token for the vectorizer
TextShortBackslash == <<"a","\\","b">>

\* "sql<TAB>AWS  sql"
TextRepeats == <<"s","q","l","\t","A","W","S"," "," ","s","q","l">>

EngineTexts ==
    {<<>>, TextPythonAws, TextLowerPythonAws, DescPythonAwsSql, TextHasPythonSql,
     TextBackslash, TextContractions, TextOnlyStopWords, TextRepeats,
     TextShortBackslash}

\* ["Java", "SQL"]
KeywordsJavaSql == << <<"J","a","v","a">>, <<"S","Q","L">> >>

EngineKeywords == {<<>>, KeywordsPythonAws, KeywordsJavaSql}

\* weights a caller passes, in tenths: a dict that sums to 1.5, one that sums
\* to 0.6, and one with a single key
EngineWeights ==
    {[tfidf |-> 5, jaccard |-> 5, keyword |-> 5],
     [tfidf |-> 2, jaccard |-> 2, keyword |-> 2],
     [tfidf |-> 10]}

\* The arguments of a call; job_keywords and weights are optional
\* parameters (default None) and are left out of the record when omitted.
EngineArgs ==
    LET texts == [resume_text : EngineTexts, job_description : EngineTexts]
    IN  texts
        \cup {Update(t, [job_keywords |-> k]) : t \in texts, k \in EngineKeywords}
        \cup {Update(t, [weights |-> w]) : t \in texts, w \in EngineWeights}
        \cup {Update(t, [job_keywords |-> k, weights |-> w]) :
                 t \in texts, k \in EngineKeywords, w \in EngineWeights}

EngineInit ==
    /\ resumes = <<>>
    /\ job_data = [title |-> "Job"]
    /\ threshold = 0
    /\ nltk_env \in NltkEnvs
    /\ pc = "idle"
    /\ results = NoResults
    /\ error = ""
    /\ scored = 0
    /\ args \in EngineArgs
    /\ called = ""
    /\ ret = NoResults
    /\ now = 0
    /\ previous = NoResults
    /\ files = NoFiles
    /\ shown = <<>>

\* engine.preprocess_text(resume_text)
CallPreprocessText ==
    /\ called = ""
    /\ called' = "preprocess_text"
    /\ ret' = PreprocessText(args.resume_text, nltk_env)
    /\ error' = ""
    /\ UNCHANGED <<resumes, job_data, threshold, nltk_env, pc, results, scored, args>>
    /\ UNCHANGED <<now, previous, pipeline_vars>>

\* engine.calculate_tfidf_similarity(resume_text, job_description)
CallCalculateTfidfSimilarity ==
    /\ called = ""
    /\ called' = "calculate_tfidf_similarity"
    /\ ret' = CalculateTfidfSimilarity(args.resume_text, args.job_description, nltk_env)
    /\ error' = TfidfSimilarityRaises(args.resume_text, args.job_description, nltk_env)
    /\ UNCHANGED <<resumes, job_data, threshold, nltk_env, pc, results, scored, args>>
    /\ UNCHANGED <<now, previous, pipeline_vars>>

\* engine.calculate_jaccard_similarity(resume_text, job_description)
CallCalculateJaccardSimilarity ==
    /\ called = ""
    /\ called' = "calculate_jaccard_similarity"
    /\ ret' = CalculateJaccardSimilarity(args.resume_text, args.job_description, nltk_env)
    /\ error' = ExceptException("")
    /\ UNCHANGED <<resumes, job_data, threshold, nltk_env, pc, results, scored, args>>
    /\ UNCHANGED <<now, previous, pipeline_vars>>

\* engine.calculate_keyword_match_score(resume_text, job_keywords)
CallCalculateKeywordMatchScore ==
    /\ called = ""
    /\ "job_keywords" \in DOMAIN args
    /\ called' = "calculate_keyword_match_score"
    /\ ret' = CalculateKeywordMatchScore(args.resume_text, args.job_keywords)
    /\ error' = ExceptException("")
    /\ UNCHANGED <<resumes, job_data, threshold, nltk_env, pc, results, scored, args>>
    /\ UNCHANGED <<now, previous, pipeline_vars>>

\* engine.calculate_composite_score(resume_text, job_description[, job_keywords][, weights]);
\* lines 90-91 put the default weights in place of None
CallCalculateCompositeScore ==
    /\ called = ""
    /\ called' = "calculate_composite_score"
    /\ ret' = CalculateCompositeScore(args.resume_text, args.job_description,
                                      Get(args, "job_keywords", <<>>),
                                      Get(args, "weights", DefaultWeights), nltk_env)
    /\ error' = TfidfSimilarityRaises(args.resume_text, args.job_description, nltk_env)
    /\ UNCHANGED <<resumes, job_data, threshold, nltk_env, pc, results, scored, args>>
    /\ UNCHANGED <<now, previous, pipeline_vars>>

EngineNext ==
    \/ CallPreprocessText
    \/ CallCalculateTfidfSimilarity
    \/ CallCalculateJaccardSimilarity
    \/ CallCalculateKeywordMatchScore
    \/ CallCalculateCompositeScore

EngineSpec == EngineInit /\ [][EngineNext]_vars

(***************************************************************************)
(* Properties                                                              *)
(***************************************************************************)
Returned == pc \in {"returned", "returned_again"}

ReturnedAgain == pc = "returned_again"

Ranked == results.ranked_resumes

HasStatistics == "statistics" \in DOMAIN results

\* a non-empty document list and a non-empty description
InputsAccepted ==
    /\ resumes # <<>>
    /\ "description" \in DOMAIN job_data
    /\ job_data.description # <<>>

\* positions of the input list whose record counts as parsed
ParsedInputs ==
    {i \in 1..Len(resumes) :
        "parsing_success" \in DOMAIN resumes[i] /\ resumes[i].parsing_success}

\* positions of the ranking whose composite score is > 0
PositiveRanked == {i \in 1..Len(Ranked) : Ranked[i].composite_score > 0}

\* positions of the ranking whose record has an empty or no raw_text
EmptyTextRanked ==
    {i \in 1..Len(Ranked) : "raw_text" \notin DOMAIN Ranked[i] \/ Ranked[i].raw_text = <<>>}

\* the k-th smallest (k = 1, 2, ...) of the positive composite scores
KthSmallestPositive(k) ==
    CHOOSE x \in {Ranked[i].composite_score : i \in PositiveRanked} :
        /\ Cardinality({i \in PositiveRanked : Ranked[i].composite_score < x}) < k
        /\ k <= Cardinality({i \in PositiveRanked : Ranked[i].composite_score <= x})

\* C1: ranked_resumes is ordered by composite_score non-increasing, and two
\* results with equal composite_score keep the relative order their
\* documents had in the input list ('filename' is the input position).
C1_RankedDescendingStable ==
    Returned =>
        \A i, j \in 1..Len(Ranked) :
            i < j =>
                /\ Ranked[i].composite_score >= Ranked[j].composite_score
                /\ Ranked[i].composite_score = Ranked[j].composite_score
                       => Ranked[i].filename < Ranked[j].filename

\* C1 witness: three documents scoring high, low, high in input order are
\* ranked doc0, doc2, doc1.
C1_Witness ==
    /\ Returned
    /\ Len(resumes) = 3
    /\ Len(Ranked) = 3
    /\ Ranked[1].filename = 0 /\ Ranked[2].filename = 2 /\ Ranked[3].filename = 1
    /\ Ranked[1].composite_score = Ranked[2].composite_score
    /\ Ranked[2].composite_score > Ranked[3].composite_score
    /\ Ranked[3].composite_score > 0

\* C2 as stated: median_score is the middle element of the ascending-sorted
\* positive composite scores, the lower of the two middle elements on an
\* even count.
C2_MedianLowerMiddle ==
    (Returned /\ HasStatistics) =>
        results.statistics.median_score
            = KthSmallestPositive((Cardinality(PositiveRanked) + 1) \div 2)

\* C2 amended: median_score is the element at 0-based index len // 2 of the
\* ascending-sorted positive composite scores, which on an even count is
\* the upper of the two middle elements.
C2_MedianUpperMiddle ==
    (Returned /\ HasStatistics) =>
        results.statistics.median_score
            = KthSmallestPositive((Cardinality(PositiveRanked) \div 2) + 1)

\* C2 witness: an even number of positive scores whose two middle elements differ
C2_Witness ==
    /\ Returned
    /\ HasStatistics
    /\ Cardinality(PositiveRanked) = 2
    /\ KthSmallestPositive(1) < KthSmallestPositive(2)
    /\ results.statistics.median_score = KthSmallestPositive(2)

\* C3: qualified_resumes is the number of entries of ranked_resumes whose
\* composite_score is >= the threshold passed to the call.
C3_QualifiedByPredicate ==
    Returned =>
        /\ results.threshold = threshold
        /\ results.qualified_resumes
               = Cardinality({i \in 1..Len(Ranked) : Ranked[i].composite_score >= threshold})

\* C3 witness: a ranking of which only a part qualifies
C3_Witness ==
    /\ Returned
    /\ Len(Ranked) = 3
    /\ results.qualified_resumes = 1
    /\ Ranked[3].composite_score > 0

\* C4: valid_resumes + failed_resumes = total_resumes; a record counts as
\* valid when its parsing_success is true and as failed otherwise, also
\* when the field is missing.
C4_ValidPlusFailedIsTotal ==
    Returned =>
        /\ results.total_resumes = Len(resumes)
        /\ results.valid_resumes = Cardinality(ParsedInputs)
        /\ results.failed_resumes = Cardinality((1..Len(resumes)) \ ParsedInputs)
        /\ results.valid_resumes + results.failed_resumes = results.total_resumes

\* C4 witness: a batch with a parsed record, a failed record and a record
\* without the parsing_success field
C4_Witness ==
    /\ Returned
    /\ \E i \in 1..Len(resumes) : "parsing_success" \notin DOMAIN resumes[i]
    /\ \E i \in 1..Len(resumes) :
           "parsing_success" \in DOMAIN resumes[i] /\ ~resumes[i].parsing_success
    /\ results.valid_resumes = 1
    /\ results.failed_resumes = 2

\* C5: a call with an empty document list or an empty description raises
\* before any document is scored and returns no report.
C5_EmptyInputRaises ==
    (pc # "idle" /\ (resumes = <<>> \/ Get(job_data, "description", <<>>) = <<>>)) =>
        /\ pc = "raised"
        /\ error # ""
        /\ scored = 0
        /\ results = NoResults

\* C5 witness: the call raised for an empty description although the list
\* holds a parsed document with text
C5_Witness ==
    /\ pc = "raised"
    /\ error = "Job description is empty"
    /\ \E i \in ParsedInputs : Get(resumes[i], "raw_text", <<>>) # <<>>

\* C6 as stated: a call with a threshold outside [0,1] raises before any
\* document is scored.
C6_ThresholdOutOfRangeRaises ==
    (pc # "idle" /\ (threshold < 0 \/ threshold > SCALE)) =>
        /\ pc = "raised"
        /\ scored = 0

\* C7: a record whose parsing failed is not ranked, is counted in
\* failed_resumes and listed in failed_parsing; a batch in which every
\* record failed returns a report with an empty ranking, no qualified
\* result and no statistics.
C7_FailedParsingNotFatal ==
    /\ Returned =>
           \A i \in (1..Len(resumes)) \ ParsedInputs :
               /\ \A j \in 1..Len(Ranked) : Ranked[j].filename # resumes[i].filename
               /\ \E j \in 1..Len(results.failed_parsing) : results.failed_parsing[j] = resumes[i]
               /\ results.failed_resumes >= 1
    /\ Returned => results.failed_resumes = Len(results.failed_parsing)
    /\ (pc # "idle" /\ InputsAccepted /\ ParsedInputs = {}) =>
           /\ Returned
           /\ Ranked = <<>>
           /\ results.top_candidates = <<>>
           /\ results.qualified_resumes = 0
           /\ ~HasStatistics
           /\ results.failed_resumes = Len(resumes)

\* C7 witness: a batch of two records that both failed has returned
C7_Witness ==
    /\ Returned
    /\ Len(resumes) = 2
    /\ ParsedInputs = {}
    /\ results.failed_resumes = 2

\* C8: the statistics block is present exactly when some ranked result has
\* composite_score > 0, and its max_score, min_score and avg_score are the
\* maximum, minimum and mean of the composite scores that are > 0.
C8_StatisticsOverPositiveScores ==
    Returned =>
        /\ HasStatistics <=> PositiveRanked # {}
        /\ HasStatistics =>
               LET n == Cardinality(PositiveRanked)
                   total == SumOver(PositiveRanked,
                                    [i \in PositiveRanked |-> Ranked[i].composite_score])
                   st == results.statistics
               IN  /\ \E i \in PositiveRanked : Ranked[i].composite_score = st.max_score
                   /\ \A i \in PositiveRanked : Ranked[i].composite_score <= st.max_score
                   /\ \E i \in PositiveRanked : Ranked[i].composite_score = st.min_score
                   /\ \A i \in PositiveRanked : Ranked[i].composite_score >= st.min_score
                   /\ st.avg_score * n <= total
                   /\ total < (st.avg_score + 1) * n

\* C8 witness: statistics over two different positive scores, with a
\* zero-score result in the ranking
C8_Witness ==
    /\ Returned
    /\ HasStatistics
    /\ Cardinality(PositiveRanked) = 2
    /\ Len(Ranked) = 3
    /\ results.statistics.min_score < results.statistics.max_score
    /\ results.statistics.min_score > 0

\* C9: a parsed document with an empty or absent raw_text gets tfidf,
\* jaccard, keyword and composite scores of 0, the breakdown
\* calculate_composite_score returns for an empty text with the same query
\* and keywords; the call does not raise.
C9_EmptyTextZeroBreakdown ==
    /\ Returned =>
           \A i \in EmptyTextRanked :
               LET b == CalculateCompositeScore(<<>>, Get(job_data, "description", <<>>),
                                                Get(job_data, "keywords", <<>>),
                                                DefaultWeights, nltk_env)
                   fields == {"composite_score", "tfidf_score", "jaccard_score", "keyword_score"}
               IN  /\ fields \subseteq DOMAIN Ranked[i]
                   /\ \A f \in fields : Ranked[i][f] = 0 /\ Ranked[i][f] = b[f]
                   /\ "scoring_error" \notin DOMAIN Ranked[i]
    /\ (pc # "idle" /\ InputsAccepted) =>
           /\ Returned
           /\ \A i \in ParsedInputs :
                  Get(resumes[i], "raw_text", <<>>) = <<>> =>
                      \E j \in EmptyTextRanked : Ranked[j].filename = resumes[i].filename

\* C9 witness: a ranking that holds a document with raw_text "" and one
\* without the field, for a job with keywords
C9_Witness ==
    /\ Returned
    /\ Get(job_data, "keywords", <<>>) # <<>>
    /\ \E i \in EmptyTextRanked : "raw_text" \notin DOMAIN Ranked[i]
    /\ \E i \in EmptyTextRanked : "raw_text" \in DOMAIN Ranked[i]

\* C10 as stated: a parsed document with empty raw_text gets composite 0
\* and is outside the qualified set whatever the threshold.
C10_EmptyTextNeverQualified ==
    Returned =>
        \A i \in EmptyTextRanked :
            /\ Ranked[i].composite_score = 0
            /\ \A j \in 1..Len(results.top_candidates) : results.top_candidates[j] # Ranked[i]
            /\ results.qualified_resumes <= Len(Ranked) - Cardinality(EmptyTextRanked)

\* C10 amended: a parsed document with empty raw_text gets composite 0; for
\* a threshold > 0 it is outside the qualified set (count and
\* top_candidates); for a threshold <= 0 every ranked result is counted as
\* qualified, this document too, and it is in top_candidates when the
\* ranking has at most 10 entries.
C10_EmptyTextQualifiedIffThresholdNotPositive ==
    Returned =>
        \A i \in EmptyTextRanked :
            /\ Ranked[i].composite_score = 0
            /\ threshold > 0 =>
                   /\ \A j \in 1..Len(results.top_candidates) :
                          results.top_candidates[j] # Ranked[i]
                   /\ results.qualified_resumes <= Len(Ranked) - Cardinality(EmptyTextRanked)
            /\ threshold <= 0 =>
                   /\ results.qualified_resumes = Len(Ranked)
                   /\ Len(Ranked) <= TopCandidates =>
                          \E j \in 1..Len(results.top_candidates) :
                              results.top_candidates[j] = Ranked[i]

\* C10 witness: with threshold 0 a document with raw_text "" is in top_candidates
C10_Witness ==
    /\ Returned
    /\ threshold = 0
    /\ \E i \in EmptyTextRanked :
           /\ "raw_text" \in DOMAIN Ranked[i]
           /\ \E j \in 1..Len(results.top_candidates) : results.top_candidates[j] = Ranked[i]
    /\ results.qualified_resumes = Len(Ranked)

\* positions of the ranking whose composite score reaches the threshold
QualifiedRanked == {i \in 1..Len(Ranked) : Ranked[i].composite_score >= threshold}

\* C11: top_candidates is the first min(10, qualified) entries of the
\* qualified subset in ranked order: it holds at most 10 entries, none with
\* a composite score below the threshold, and ranked_resumes still holds
\* every scored document.
C11_TopCandidatesFirstTenQualified ==
    Returned =>
        LET top == results.top_candidates
            nq == Cardinality(QualifiedRanked)
        IN  /\ Len(top) = (IF nq < 10 THEN nq ELSE 10)
            /\ Len(top) <= 10
            /\ \A k \in 1..Len(top) :
                   /\ top[k].composite_score >= threshold
                   /\ \E i \in QualifiedRanked :
                          /\ Ranked[i] = top[k]
                          /\ Cardinality({j \in QualifiedRanked : j < i}) = k - 1
            /\ Len(Ranked) = scored
            /\ Len(Ranked) = Cardinality(ParsedInputs)

\* C11 witness: eleven documents reach the threshold, ten are shown and the
\* eleventh is still in ranked_resumes.
C11_Witness ==
    /\ Returned
    /\ threshold > 0
    /\ Cardinality(QualifiedRanked) = 11
    /\ Len(results.top_candidates) = 10
    /\ Len(Ranked) = 11

\* the score fields rank_resumes adds to a record
ScoreFields == {"composite_score", "tfidf_score", "jaccard_score", "keyword_score"}

\* the fields the except branch of rank_resumes adds to a record
ErrorFields == {"composite_score", "scoring_error"}

\* the ranked record at position k is the input record at position i,
\* unchanged, extended with the score fields or, when scoring it raised,
\* with the error fields
IsScoredCopyOf(k, i) ==
    /\ DOMAIN Ranked[k] \in {DOMAIN resumes[i] \cup ScoreFields,
                             DOMAIN resumes[i] \cup ErrorFields}
    /\ \A f \in DOMAIN resumes[i] : Ranked[k][f] = resumes[i][f]

\* C12: ranked_resumes holds exactly one result per successfully parsed
\* input document: its length is valid_resumes, every parsed input has
\* exactly one ranked position that is its scored copy and every ranked
\* position is the scored copy of exactly one parsed input, also when two
\* inputs have the same content.
C12_RankedIsPermutationOfParsed ==
    Returned =>
        /\ Len(Ranked) = results.valid_resumes
        /\ Len(Ranked) = Cardinality(ParsedInputs)
        /\ \A i \in ParsedInputs :
               Cardinality({k \in 1..Len(Ranked) : IsScoredCopyOf(k, i)}) = 1
        /\ \A k \in 1..Len(Ranked) :
               Cardinality({i \in ParsedInputs : IsScoredCopyOf(k, i)}) = 1

\* C12 witness: two parsed documents with the same text, and a third one
\* that failed to parse between them; both copies are ranked.
C12_Witness ==
    /\ Returned
    /\ Len(resumes) = 3
    /\ ParsedInputs = {1, 3}
    /\ Get(resumes[1], "raw_text", <<>>) = TextPythonAws
    /\ Get(resumes[3], "raw_text", <<>>) = TextPythonAws
    /\ Len(Ranked) = 2
    /\ Ranked[1].raw_text = Ranked[2].raw_text
    /\ Ranked[1].filename # Ranked[2].filename

\* the engine method a direct caller has called
CalledComposite == called = "calculate_composite_score"

\* the weight in force for a signal, in tenths: the caller's entry if the
\* caller passed weights that have one, else the default
WeightInForce(signal, default) ==
    IF "weights" \in DOMAIN args /\ signal \in DOMAIN args.weights
    THEN args.weights[signal]
    ELSE default

\* C13: calculate_composite_score returns composite_score = w_tfidf*tfidf +
\* w_jaccard*jaccard + w_keyword*keyword for the weights in force (0.4, 0.3,
\* 0.3 by default, or the caller's), whatever the weights sum to, together
\* with the three signal values it used.
C13_CompositeIsWeightedSum ==
    CalledComposite =>
        /\ DOMAIN ret = ScoreFields
        /\ ret.tfidf_score =
               CalculateTfidfSimilarity(args.resume_text, args.job_description, nltk_env)
        /\ ret.jaccard_score =
               CalculateJaccardSimilarity(args.resume_text, args.job_description, nltk_env)
        /\ ret.keyword_score =
               (IF "job_keywords" \in DOMAIN args
                THEN CalculateKeywordMatchScore(args.resume_text, args.job_keywords)
                ELSE 0)
        /\ 10 * ret.composite_score
               <= WeightInForce("tfidf", 4) * ret.tfidf_score
                  + WeightInForce("jaccard", 3) * ret.jaccard_score
                  + WeightInForce("keyword", 3) * ret.keyword_score
        /\ WeightInForce("tfidf", 4) * ret.tfidf_score
              + WeightInForce("jaccard", 3) * ret.jaccard_score
              + WeightInForce("keyword", 3) * ret.keyword_score
               < 10 * ret.composite_score + 10

\* C13 witness: weights 0.5, 0.5, 0.5 on tfidf 0.6570, jaccard 0.6666 and
\* keyword 1.0 give 1.1618, not the 0.7745 of weights rescaled to sum to 1.
C13_Witness ==
    /\ CalledComposite
    /\ "weights" \in DOMAIN args
    /\ args.weights = [tfidf |-> 5, jaccard |-> 5, keyword |-> 5]
    /\ ret.tfidf_score = 6570
    /\ ret.jaccard_score = 6666
    /\ ret.keyword_score = SCALE
    /\ ret.composite_score = 11618

\* C14: with the default weights, each of tfidf_score, jaccard_score,
\* keyword_score and composite_score of the returned breakdown lies in
\* [0,1].  The rounded product of two normalised rows is returned as it
\* is: for two texts with the same three terms it is above 1.
C14_ScoresInUnitRange ==
    (CalledComposite /\ "weights" \notin DOMAIN args) =>
        \A f \in ScoreFields : 0 <= ret[f] /\ ret[f] <= SCALE

CalledKeyword == called = "calculate_keyword_match_score"

\* keyword occurs in text at some offset, letter case aside
OccursIgnoringCase(keyword, text) ==
    \E o \in 0..(Len(text) - Len(keyword)) :
        \A j \in 1..Len(keyword) : LowerChar(text[o + j]) = LowerChar(keyword[j])

\* entries of the keyword list that occur in the raw text
MatchedKeywords ==
    {i \in 1..Len(args.job_keywords) : OccursIgnoringCase(args.job_keywords[i], args.resume_text)}

\* C15: calculate_keyword_match_score returns the number of entries of the
\* keyword list that occur as a case-insensitive substring of the raw text,
\* token boundaries aside, divided by the length of the list, and 0.0 when
\* the list or the text is empty; ["Python","AWS"] against a text with
\* "python" and without "aws" gives 0.5.
C15_KeywordScoreIsSubstringCoverage ==
    CalledKeyword =>
        /\ (args.job_keywords = <<>> \/ args.resume_text = <<>>) => ret = 0
        /\ (args.job_keywords # <<>> /\ args.resume_text # <<>>) =>
               /\ ret * Len(args.job_keywords) <= Cardinality(MatchedKeywords) * SCALE
               /\ Cardinality(MatchedKeywords) * SCALE < (ret + 1) * Len(args.job_keywords)
        /\ (args.job_keywords = KeywordsPythonAws /\ args.resume_text = TextHasPythonSql) =>
               ret = SCALE \div 2

\* C15 witness: "Java" and "SQL" are both found in "C:\sql JavaScript",
\* inside longer words, and the score is 1.0.
C15_Witness ==
    /\ CalledKeyword
    /\ args.job_keywords = KeywordsJavaSql
    /\ args.resume_text = TextBackslash
    /\ ret = SCALE

CalledJaccard == called = "calculate_jaccard_similarity"

\* the set of normalized tokens of a text
TokenSet(text) == Range(Split(PreprocessText(text, nltk_env)))

\* C16: calculate_jaccard_similarity returns |A \cap B| / |A \cup B| for
\* the sets A, B of normalized tokens of the two texts, 0.0 when either set
\* is empty, and 1.0 exactly when the sets are equal and non-empty.
C16_JaccardIsIntersectionOverUnion ==
    CalledJaccard =>
        LET A == TokenSet(args.resume_text)
            B == TokenSet(args.job_description)
        IN  /\ (A = {} \/ B = {}) => ret = 0
            /\ (A # {} /\ B # {}) =>
                   /\ ret * Cardinality(A \cup B) <= Cardinality(A \cap B) * SCALE
                   /\ Cardinality(A \cap B) * SCALE < (ret + 1) * Cardinality(A \cup B)
            /\ ret = SCALE <=> (A = B /\ A # {})

\* C16 witness: "sql<TAB>AWS  sql" has the token set {sql, aws} whatever the
\* repetition, "python aws sql" has three tokens, and the result is 2/3.
C16_Witness ==
    /\ CalledJaccard
    /\ args.resume_text = TextRepeats
    /\ args.job_description = DescPythonAwsSql
    /\ Cardinality(TokenSet(args.resume_text)) = 2
    /\ ret = (2 * SCALE) \div 3

CalledTfidf == called = "calculate_tfidf_similarity"

CalledPreprocess == called = "preprocess_text"

\* C18: preprocess_text lowercases its input and replaces every character
\* that is neither in [a-z0-9] nor whitespace by a space, so every token it
\* outputs consists of characters in [a-z0-9] only, for every input.  The
\* pattern's class keeps the backslash: "C:\sql JavaScript" yields the
\* token "\sql".
C18_TokensAlphanumeric ==
    CalledPreprocess =>
        \A i \in 1..Len(ret) : ret[i] \in LowerSet \cup DigitSet \cup {" "}

\* a is b with some elements left out
RECURSIVE IsSubsequence(_, _)
IsSubsequence(a, b) ==
    IF a = <<>> THEN TRUE
    ELSE IF b = <<>> THEN FALSE
    ELSE IF Head(a) = Head(b) THEN IsSubsequence(Tail(a), Tail(b))
    ELSE IsSubsequence(a, Tail(b))

\* the stop-word set the engine was configured with at import
ConfiguredStopWords == IF nltk_env = "absent" THEN FallbackStopWords ELSE NltkStopWords

\* the tokens of the cleaned input, in input order: the tokenizer's on the
\* library path, the whitespace-separated words on the fallback path
InputTokens ==
    LET cleaned == Join(Split(ReSub(Lower(args.resume_text))))
    IN  IF nltk_env = "ok" THEN WordTokenize(cleaned) ELSE Split(cleaned)

\* C19: every token in the output of preprocess_text is longer than 2
\* characters and is no stop word, and the surviving tokens keep their
\* input order, on the tokenizer-library path and on the fallback path.
C19_TokensFilteredInOrder ==
    CalledPreprocess =>
        /\ \A k \in 1..Len(Split(ret)) :
               /\ Len(Split(ret)[k]) > 2
               /\ Split(ret)[k] \notin ConfiguredStopWords
        /\ IsSubsequence(Split(ret), InputTokens)

\* C19 witness: on the library path "gonna cannot win" is tokenized to gon,
\* na, can, not, win; na is short, can and not are stop words, and gon and
\* win come out in that order.
C19_Witness ==
    /\ CalledPreprocess
    /\ nltk_env = "ok"
    /\ args.resume_text = TextContractions
    /\ Len(InputTokens) = 5
    /\ Split(ret) = << <<"g","o","n">>, <<"w","i","n">> >>

\* C20: normalization is idempotent: preprocess_text applied to the text
\* preprocess_text returned gives that text again.
C20_PreprocessIdempotent ==
    CalledPreprocess => PreprocessText(ret, nltk_env) = ret

\* C20 witness: on the library path "gonna cannot win" becomes "gon win",
\* which differs from the input and is left as it is by a second pass.
C20_Witness ==
    /\ CalledPreprocess
    /\ nltk_env = "ok"
    /\ args.resume_text = TextContractions
    /\ ret # args.resume_text
    /\ ret = <<"g","o","n"," ","w","i","n">>
    /\ PreprocessText(ret, nltk_env) = <<"g","o","n"," ","w","i","n">>

\* a text argument of the similarity call is empty, or its normalized text is
EitherTextEmpty ==
    \/ args.resume_text = <<>>
    \/ args.job_description = <<>>
    \/ PreprocessText(args.resume_text, nltk_env) = <<>>
    \/ PreprocessText(args.job_description, nltk_env) = <<>>

\* C21: no signal computation raises on empty or malformed text:
\* preprocess_text of an empty input returns an empty result, and
\* calculate_tfidf_similarity, calculate_jaccard_similarity and
\* calculate_keyword_match_score return 0.0 whenever the document text, the
\* query text, either normalized text or the keyword list is empty; an
\* error inside them becomes 0.0.
C21_SignalsDegradeToZero ==
    called # "" =>
        /\ error = ""
        /\ (CalledPreprocess /\ args.resume_text = <<>>) => ret = <<>>
        /\ ((CalledTfidf \/ CalledJaccard) /\ EitherTextEmpty) => ret = 0
        /\ (CalledKeyword /\ (args.resume_text = <<>> \/ args.job_keywords = <<>>)) => ret = 0
        /\ (CalledTfidf /\ TfidfTryRaises(PreprocessText(args.resume_text, nltk_env),
                                          PreprocessText(args.job_description, nltk_env)) # "")
               => ret = 0

\* C21 witness: both texts are "a\b", which normalizes to the word "a\b";
\* the vectorizer finds no token in it and raises, and the call returns 0.0.
C21_Witness ==
    /\ CalledTfidf
    /\ args.resume_text = TextShortBackslash
    /\ args.job_description = TextShortBackslash
    /\ PreprocessText(args.resume_text, nltk_env) = TextShortBackslash
    /\ error = ""
    /\ ret = 0

JobFileIsJson == Lower(Suffix(files.job_file.name)) = <<".","j","s","o","n">>

JobLoaded == pc = "loaded"

LoadRaised ==
    /\ pc = "raised"
    /\ error \in {"Job file not found", "JSONDecodeError",
                  "JSON must contain 'description' field", "Job description file is empty"}

LoadCalled == pc \in {"loaded", "idle", "returned", "raised"}

\* C25: load_job_description on a non-JSON file returns the stripped content
\* as description and keywords = [], raises when the file is missing or its
\* stripped content is empty, fills in keywords = [] for a JSON file without
\* keywords, and every query it returns has a non-empty description
C25_LoadedJobHasDescription ==
    /\ (JobLoaded /\ ~JobFileIsJson) =>
          /\ job_data.description = Strip(files.job_file.content)
          /\ job_data.keywords = <<>>
    /\ (LoadCalled /\ ~files.job_file.exists) => LoadRaised
    /\ (LoadCalled /\ files.job_file.exists /\ ~JobFileIsJson
          /\ Strip(files.job_file.content) = <<>>) => LoadRaised
    /\ (JobLoaded /\ JobFileIsJson /\ "keywords" \notin DOMAIN files.job_file.json) =>
          job_data.keywords = <<>>
    /\ JobLoaded => Get(job_data, "description", <<>>) # <<>>

DirHoldsFiles == files.resume_dir.exists /\ files.resume_dir.entries # <<>>

MatchRaised == pc = "raised" /\ error \in {"No resumes provided", "Job description is empty"}

MatchCalled == pc = "returned" \/ MatchRaised

DirectoryParsed == pc = "idle" \/ MatchCalled

RecordsOf(name) == {i \in 1..Len(resumes) : Get(resumes[i], "filename", <<>>) = name}

\* C24: parse_resumes_from_directory on an existing directory that holds a
\* resume file returns a non-empty list with one record for each file, and
\* match_resumes_to_job on that list and the loaded job returns a dict that
\* contains ranked_resumes
C24_DirectoryParsedAndMatched ==
    /\ (DirectoryParsed /\ DirHoldsFiles) =>
          /\ resumes # <<>>
          /\ \A k \in 1..Len(files.resume_dir.entries) :
                Cardinality(RecordsOf(files.resume_dir.entries[k].name)) = 1
    /\ (MatchCalled /\ DirHoldsFiles /\ job_data.description # <<>>) =>
          /\ pc = "returned"
          /\ "ranked_resumes" \in DOMAIN results

\* The scenario of the test fixture: the document text is
\* "This is a test resume with python and django experience.", the description
\* "Looking for a Python developer with django experience.", the job has no
\* keywords, and match_resumes_to_job has returned with threshold 0.3
ScenarioMatched ==
    /\ pc = "returned"
    /\ threshold = DefaultThreshold
    /\ Len(resumes) = 1
    /\ Get(resumes[1], "raw_text", <<>>) = TextTestResume
    /\ job_data.description = TextTestJob
    /\ Get(job_data, "keywords", <<>>) = <<>>

\* C23 as stated: in the scenario the document's composite score is > 0 and
\* the document is counted in the qualified set
C23_ScenarioQualified ==
    ScenarioMatched =>
        /\ Len(results.ranked_resumes) = 1
        /\ results.ranked_resumes[1].composite_score > 0
        /\ results.qualified_resumes = 1
        /\ Len(results.top_candidates) = 1

\* C23 (amended): in the scenario the document's composite score is > 0 and
\* below the threshold 0.3, so the document is ranked but not counted in the
\* qualified set
C23_ScenarioRankedBelowThreshold ==
    ScenarioMatched =>
        /\ Len(results.ranked_resumes) = 1
        /\ results.ranked_resumes[1].composite_score > 0
        /\ results.ranked_resumes[1].composite_score < (3 * SCALE) \div 10
        /\ results.ranked_resumes[1].tfidf_score > 0
        /\ results.ranked_resumes[1].jaccard_score > 0
        /\ results.ranked_resumes[1].keyword_score = 0
        /\ results.qualified_resumes = 0
        /\ results.top_candidates = <<>>

C23_Witness == ScenarioMatched /\ results.valid_resumes = 1

\* The index route has rendered a candidate list
Shown == pc = "shown"

ShownKey(entry) == <<entry.candidateName, entry.email>>

\* Positions of ranked_resumes whose (candidate name, email) pair occurs at no
\* earlier position
FirstOccurrences ==
    {i \in 1..Len(results.ranked_resumes) :
        \A j \in 1..(i - 1) :
            CandidateKey(results.ranked_resumes[j]) # CandidateKey(results.ranked_resumes[i])}

\* The k-th first occurrence in the order of ranked_resumes
KthFirstOccurrence(k) ==
    CHOOSE i \in FirstOccurrences : Cardinality({j \in FirstOccurrences : j < i}) = k - 1

\* C28: the candidate list shown by the index route has no two entries with
\* the same (candidate name, email); the entry kept for a pair is its first
\* occurrence in ranked_resumes, and the kept entries are in the order they
\* had in ranked_resumes
C28_ShownDeduplicatedInRankOrder ==
    Shown =>
        /\ \A a, b \in 1..Len(shown) : a # b => ShownKey(shown[a]) # ShownKey(shown[b])
        /\ Len(shown) = Cardinality(FirstOccurrences)
        /\ \A k \in 1..Len(shown) :
              /\ ShownKey(shown[k]) = CandidateKey(results.ranked_resumes[KthFirstOccurrence(k)])
              /\ shown[k].filename = results.ranked_resumes[KthFirstOccurrence(k)].filename
              /\ shown[k].wordCount = results.ranked_resumes[KthFirstOccurrence(k)].word_count
              /\ \A i \in 1..Len(results.ranked_resumes) :
                    CompositeOf(results.ranked_resumes[i])
                        <= CompositeOf(results.ranked_resumes[KthFirstOccurrence(k)])
                    \/ CandidateKey(results.ranked_resumes[i]) # ShownKey(shown[k])

\* Two namesakes with different addresses are each ranked twice (both globs
\* of a case-insensitive file system list each file); two entries are shown
C28_Witness ==
    /\ Shown
    /\ Len(shown) = 2
    /\ Len(results.ranked_resumes) = 4
    /\ shown[1].candidateName = shown[2].candidateName
    /\ shown[1].email # shown[2].email

\* The record rank_resumes yields for the input at position i when it is
\* scored on its own against the job
ScoredAlone(i) ==
    ScoreResume(resumes[i], Get(job_data, "description", <<>>),
                Get(job_data, "keywords", <<>>), nltk_env)

\* Assignments of the parsed inputs to the positions of a list as long as
\* the ranking, each input at one position
Placements ==
    {pos \in [1..Cardinality(ParsedInputs) -> ParsedInputs] :
        \A k, l \in 1..Cardinality(ParsedInputs) : k # l => pos[k] # pos[l]}

\* A placement ordered by composite score descending, input position breaking
\* ties
OrderedByScoreThenPosition(pos) ==
    \A k, l \in DOMAIN pos :
        k < l =>
            \/ CompositeOf(ScoredAlone(pos[k])) > CompositeOf(ScoredAlone(pos[l]))
            \/ /\ CompositeOf(ScoredAlone(pos[k])) = CompositeOf(ScoredAlone(pos[l]))
               /\ pos[k] < pos[l]

\* C26: the scores a document receives from rank_resumes are those it gets
\* when scored on its own against the query, whichever other documents are
\* in the batch; the ranked list is the list of these records ordered by
\* composite score descending with input position as tie-break, which does
\* not depend on the order of scoring
C26_ScoresIndependentOfBatch ==
    Returned =>
        /\ Len(Ranked) = Cardinality(ParsedInputs)
        /\ \A pos \in Placements :
              OrderedByScoreThenPosition(pos) =>
                  \A k \in DOMAIN pos : Ranked[k] = ScoredAlone(pos[k])

\* C26 witness: three parsed documents with different texts; the last input
\* is ranked first, above a document with a smaller positive score
C26_Witness ==
    /\ Returned
    /\ Len(resumes) = 3
    /\ ParsedInputs = {1, 2, 3}
    /\ Ranked[1].composite_score > Ranked[2].composite_score
    /\ Ranked[2].composite_score > 0
    /\ Ranked[1].filename = resumes[3].filename
    /\ Ranked[2].filename = resumes[1].filename

\* C30: in every report of match_resumes_to_job no result with
\* composite_score < threshold comes before a result with composite_score >=
\* threshold, so the qualified results are the first qualified_resumes entries
\* of ranked_resumes and top_candidates is the first min(10,
\* qualified_resumes) entries of ranked_resumes
C30_QualifiedIsPrefixOfRanked ==
    Returned =>
        /\ \A i, j \in 1..Len(Ranked) :
              i < j => ~(Ranked[i].composite_score < threshold
                         /\ Ranked[j].composite_score >= threshold)
        /\ \A i \in 1..Len(Ranked) :
              Ranked[i].composite_score >= threshold <=> i <= results.qualified_resumes
        /\ results.top_candidates =
              SubSeq(Ranked, 1, IF results.qualified_resumes < 10
                                THEN results.qualified_resumes ELSE 10)

\* C30 witness: the first input scores below the threshold and a later one
\* reaches it; the ranking begins with the qualified results and ends with a
\* result below the threshold
C30_Witness ==
    /\ Returned
    /\ threshold > 0
    /\ resumes[1].raw_text = TextJavaSql
    /\ results.qualified_resumes >= 1
    /\ results.qualified_resumes < Len(Ranked)
    /\ Ranked[1].filename # resumes[1].filename
    /\ Ranked[Len(Ranked)].composite_score < threshold

\* Positions of the parsed inputs whose scoring raises
FailingInputs == {i \in ParsedInputs : Get(resumes[i], "raw_text", <<>>) = TextArray}

IsFailing(r) == Get(r, "raw_text", <<>>) = TextArray

\* C29: if scoring a document raises inside rank_resumes, the call still
\* returns one result for every document it was given; the failing
\* document's result carries composite_score 0.0 and scoring_error and no
\* tfidf_score, jaccard_score or keyword_score, and the other results, in
\* their order, are the ranking of the batch without the failing documents
C29_ScoringErrorIsolated ==
    Returned =>
        /\ Len(Ranked) = Cardinality(ParsedInputs)
        /\ \A i \in FailingInputs :
              \E k \in 1..Len(Ranked) :
                  /\ Ranked[k].filename = resumes[i].filename
                  /\ \A l \in 1..Len(Ranked) : Ranked[l].filename = resumes[i].filename => l = k
                  /\ DOMAIN Ranked[k] = DOMAIN resumes[i] \cup ErrorFields
                  /\ Ranked[k].composite_score = 0
                  /\ Ranked[k].scoring_error # ""
                  /\ DOMAIN Ranked[k] \cap {"tfidf_score", "jaccard_score", "keyword_score"} = {}
        /\ SelectSeq(Ranked, LAMBDA r : ~IsFailing(r))
              = RankResumes(SelectSeq(resumes, LAMBDA r : ParsingSuccess(r) /\ ~IsFailing(r)),
                            Get(job_data, "description", <<>>),
                            Get(job_data, "keywords", <<>>), nltk_env)

\* C29 witness: scoring the second of three parsed documents raises; it is
\* ranked last with an error, below the third and the first input, which
\* have different positive scores
C29_Witness ==
    /\ Returned
    /\ Len(resumes) = 3
    /\ ParsedInputs = {1, 2, 3}
    /\ FailingInputs = {2}
    /\ "scoring_error" \in DOMAIN Ranked[3]
    /\ Ranked[1].filename = resumes[3].filename
    /\ Ranked[1].composite_score > Ranked[2].composite_score
    /\ Ranked[2].composite_score > 0

====
